---- MODULE Spec2Model ----
(***************************************************************************)
(* A model of the Stoic knowledge base (stoic-knowledge-base/):            *)
(*   - api/stoic_api.py        get_contextual_quote, match_philosopher,    *)
(*                             calculate_match_score                       *)
(*   - scripts/chunk_passages.py   chunk_by_paragraph                      *)
(*   - scripts/tag_rules.py, tag_openai.py, tag_passages.py   the taggers  *)
(* Python strings are TLA+ strings (Len, \o and SubSeq act on them), so    *)
(* substring tests, lower(), split() and str() are computed, not assumed.  *)
(* Every subsystem has its own specification (SpecQuote, SpecChunk,        *)
(* SpecMatch, SpecTag); the variables of the other subsystems stay idle.   *)
(***************************************************************************)
EXTENDS Integers, Sequences, FiniteSets, TLC

VARIABLES
    \* ---- get_contextual_quote (one request) ----
    q_request,        \* the QuoteRequest
    q_pc,             \* the stage the request is at
    q_trace,          \* the stages executed so far, in order
    context_text,     \* the string sent to the embedding provider
    result_data,      \* result.data as returned by the match_passages RPC
    pre_stress,       \* matches entering the stress-level stage
    stress_filtered,  \* the rows that pass the stress-level test
    matches,          \* matches after the filter stages
    selection,        \* result.data after "matches[:5]"
    q_outcome,        \* the HTTP outcome of the request
    \* ---- chunk_by_paragraph (one run of the generator) ----
    paragraphs,       \* text.split("\n\n"), each paragraph as its words
    min_words,        \* the min_words argument
    max_words,        \* the max_words argument
    para_idx,         \* the number of paragraphs the loop has consumed
    current_chunk,    \* the paragraphs of the running chunk
    current_word_count,
    chunks,           \* the chunks yielded so far, each as its words
    c_pc,             \* "loop" or "done"
    \* ---- match_philosopher (one request) ----
    m_request,        \* the MatchRequest
    catalog,          \* the rows of the philosophers table, in the order read
    scores,           \* the scores dict, in insertion order
    best_id,          \* the selected profile id
    match_reason,     \* the justification text
    user_profiles,    \* the persisted user_profiles table
    m_outcome,        \* the HTTP outcome of the request
    reason_outcome,   \* how the calls of generate_match_reason ended
    m_pc,             \* the step the request is at
    \* ---- a tagging run (tag_rules, tag_openai or tag_passages) ----
    strategy,         \* "rules", "openai" or "anthropic"
    passages,         \* the input passages, mutated in place by the taggers
    tagged,           \* the output list: indices into passages, in order
    batch_start,      \* i of "for i in range(0, len(passages), batch_size)"
    results,          \* per passage of the batch: Pending or the dict returned
    t_pc,             \* the step the run is at
    t_log,            \* what the external loop has done so far, in order
    t_answers,        \* per passage: what its tag_passage call returned
    \* ---- process_work, generate_embeddings, export_for_supabase ----
    work_id,          \* the work being segmented
    raw_text,         \* the raw text: its paragraphs, in order
    w_run,            \* 1 for the first segmentation of the text, 2 for the second
    emitted,          \* the (chunk_text, chunk_meta) pairs the chunker yields
    chunk_idx,        \* the number of pairs process_work has consumed
    work_passages,    \* the passages list of process_work, then of the pipeline
    first_ids,        \* the passage ids of the first segmentation
    embed_start,      \* i of generate_embeddings' batch loop
    export_rows,      \* the rows export_for_supabase writes
    w_pc,             \* the step the pipeline is at
    \* ---- several POST /quote requests in flight at once ----
    rq_index,         \* the passages stored in the vector index
    rq_request,       \* per request: the QuoteRequest
    rq_pc,            \* per request: the stage it is at
    rq_context,       \* per frame: context_text
    rq_rows,          \* per frame: result.data
    rq_ext,           \* per request: how its provider calls ended
    rq_outcome        \* per request: the response or the HTTPException

quoteVars == <<q_request, q_pc, q_trace, context_text, result_data,
               pre_stress, stress_filtered, matches, selection, q_outcome>>

chunkVars == <<paragraphs, min_words, max_words, para_idx, current_chunk,
               current_word_count, chunks, c_pc>>

matchVars == <<m_request, catalog, scores, best_id, match_reason,
               user_profiles, m_outcome, reason_outcome, m_pc>>

tagVars ==
    <<strategy, passages, tagged, batch_start, results, t_pc, t_log, t_answers>>

workVars == <<work_id, raw_text, w_run, emitted, chunk_idx, work_passages,
              first_ids, embed_start, export_rows, w_pc>>

concVars == <<rq_index, rq_request, rq_pc, rq_context, rq_rows, rq_ext,
              rq_outcome>>

vars == <<quoteVars, chunkVars, matchVars, tagVars, workVars, concVars>>

\***************************************************************************
\* Python values
\***************************************************************************

\* Python's None, for Optional[str] fields.
None == "<None>"

\* bool(s) of an Optional[str].
Truthy(s) == s # None /\ s # ""

Min(a, b) == IF a <= b THEN a ELSE b

Max(a, b) == IF a >= b THEN a ELSE b

\* "needle in hay" on Python strings.
Contains(needle, hay) ==
    \E i \in 1..(Len(hay) - Len(needle) + 1) :
        SubSeq(hay, i, i + Len(needle) - 1) = needle

\* sep.join(parts) for a sequence of strings.
RECURSIVE Join(_, _)
Join(sep, parts) ==
    IF Len(parts) = 0 THEN ""
    ELSE IF Len(parts) = 1 THEN parts[1]
    ELSE parts[1] \o sep \o Join(sep, Tail(parts))

\* s[:n]
Take(s, n) == SubSeq(s, 1, Min(n, Len(s)))

\* str(list_of_str): "['a', 'b']".
PyStrList(l) ==
    "[" \o Join(", ", [i \in 1..Len(l) |-> "'" \o l[i] \o "'"]) \o "]"

\* str(tags) of the tags dict of a stored row.
PyStrTags(t) ==
    "{'primary_concepts': " \o PyStrList(t.primary_concepts)
    \o ", 'virtues': " \o PyStrList(t.virtues)
    \o ", 'practices': " \o PyStrList(t.practices)
    \o ", 'situations': " \o PyStrList(t.situations)
    \o ", 'emotions': " \o PyStrList(t.emotions) \o "}"

LowerAlphabet == "abcdefghijklmnopqrstuvwxyz"

UpperAlphabet == "ABCDEFGHIJKLMNOPQRSTUVWXYZ"

\* c.upper() of one character.
UpperChar(c) ==
    IF \E i \in 1..26 : SubSeq(LowerAlphabet, i, i) = c
    THEN LET i == CHOOSE j \in 1..26 : SubSeq(LowerAlphabet, j, j) = c
         IN  SubSeq(UpperAlphabet, i, i)
    ELSE c

\* c.lower() of one character.
LowerChar(c) ==
    IF \E i \in 1..26 : SubSeq(UpperAlphabet, i, i) = c
    THEN LET i == CHOOSE j \in 1..26 : SubSeq(UpperAlphabet, j, j) = c
         IN  SubSeq(LowerAlphabet, i, i)
    ELSE c

IsLetter(c) == Contains(c, LowerAlphabet) \/ Contains(c, UpperAlphabet)

\* The characters of s, as a sequence of one-character strings.
Chars(s) == [i \in 1..Len(s) |-> SubSeq(s, i, i)]

\* "".join(cs), by halves to keep the evaluation shallow.
RECURSIVE Concat(_)
Concat(cs) ==
    IF Len(cs) = 0 THEN ""
    ELSE IF Len(cs) = 1 THEN cs[1]
    ELSE LET h == Len(cs) \div 2
         IN  Concat(SubSeq(cs, 1, h)) \o Concat(SubSeq(cs, h + 1, Len(cs)))

\* s.lower()
Lower(s) == Concat([i \in 1..Len(s) |-> LowerChar(SubSeq(s, i, i))])

\* s.replace("_", " ").title(): a letter is upper-cased after a non-letter
\* (or at the start) and lower-cased after a letter.
Title(s) ==
    LET r == [i \in 1..Len(s) |->
                 IF SubSeq(s, i, i) = "_" THEN " " ELSE SubSeq(s, i, i)]
    IN  Concat([i \in 1..Len(s) |->
                   IF i > 1 /\ IsLetter(r[i - 1])
                   THEN LowerChar(r[i]) ELSE UpperChar(r[i])])

\***************************************************************************
\* api/stoic_api.py: get_contextual_quote
\***************************************************************************

\* The number of passages of the vector index.
PoolSize == 7

\* match_count of the match_passages call.
MatchCount == 10

\* matches[:5]
SelectTopCount == 5

PhilosopherIds == <<"marcus_aurelius", "seneca", "epictetus">>

WorkIds == <<"meditations", "letters_to_lucilius", "enchiridion">>

\* The tags of the stored rows: rows 1 and 2 hold taxonomy values only; rows 3
\* and 4 hold values an external tagger stored unchecked.
TagSamples == <<
    [primary_concepts |-> <<"memento_mori">>, virtues |-> <<"courage">>,
     practices |-> <<>>, situations |-> <<"anxiety">>,
     emotions |-> <<"anxiety", "fear">>],
    [primary_concepts |-> <<"present_moment">>, virtues |-> <<>>,
     practices |-> <<"morning_reflection">>, situations |-> <<>>,
     emotions |-> <<"peace">>],
    [primary_concepts |-> <<>>, virtues |-> <<"wisdom">>,
     practices |-> <<>>, situations |-> <<"overwhelm">>,
     emotions |-> <<"high_anxiety">>],
    [primary_concepts |-> <<"amor_fati">>, virtues |-> <<>>,
     practices |-> <<>>, situations |-> <<"a_normal_day">>,
     emotions |-> <<>>] >>

\* The similarity (in thousandths) the index gives passage i for the query.
SimilarityOf(i) == 200 + 30 * ((i * 3) % 5)

\* Which of the tag samples passage i holds.
TagSampleOf(i) ==
    IF i % 5 = 0 THEN 4 ELSE IF i % 4 = 3 THEN 3 ELSE (i % 2) + 1

\* The stored row of passage i, as export_for_supabase writes it.
RowOf(i) ==
    [id |-> WorkIds[(i % 3) + 1] \o "_" \o ToString(i),
     text |-> "text " \o ToString(i),
     philosopher_id |-> PhilosopherIds[(i % 3) + 1],
     work_id |-> WorkIds[(i % 3) + 1],
     tags |-> TagSamples[TagSampleOf(i)],
     similarity |-> SimilarityOf(i)]

\* The rows of S ranked by similarity, highest first; rows of equal
\* similarity in index order, ascending or descending.
RECURSIVE Ranked(_, _)
Ranked(S, asc) ==
    IF S = {} THEN <<>>
    ELSE LET best == CHOOSE i \in S : \A j \in S :
                        \/ SimilarityOf(i) > SimilarityOf(j)
                        \/ /\ SimilarityOf(i) = SimilarityOf(j)
                           /\ IF asc THEN i <= j ELSE i >= j
         IN  <<RowOf(best)>> \o Ranked(S \ {best}, asc)

\* What the match_passages RPC can return: the match_count nearest passages
\* over the threshold 0.0, ranked.
MatchPassages(S, asc) == Take(Ranked(S, asc), MatchCount)

\* stress_map.get(level, "")
StressPhrase(level) ==
    CASE level = "low" -> "feeling calm and peaceful"
      [] level = "normal" -> "normal day, looking for wisdom"
      [] level = "elevated" -> "feeling stressed and need perspective"
      [] level = "high" -> "very anxious and need calming guidance"
      [] OTHER -> ""

\* time_map.get(time, "")
TimePhrase(time) ==
    CASE time = "morning" -> "starting my day"
      [] time = "midday" -> "middle of my day"
      [] time = "evening" -> "reflecting on my day"
      [] time = "night" -> "ending my day, preparing to rest"
      [] OTHER -> ""

\* The context string with every part joined, the empty ones too.
ContextTextKeepEmpty(req) ==
    LET context_parts ==
            IF Truthy(req.query) THEN <<req.query>>
            ELSE <<StressPhrase(req.stress_level), TimePhrase(req.time_of_day)>>
                 \o (IF req.is_active THEN <<"during exercise or activity">>
                     ELSE <<>>)
    IN  Join(", ", context_parts)

\* The context string of a request.
ContextText(req) ==
    LET context_parts ==
            IF Truthy(req.query) THEN <<req.query>>
            ELSE <<StressPhrase(req.stress_level), TimePhrase(req.time_of_day)>>
                 \o (IF req.is_active THEN <<"during exercise or activity">>
                     ELSE <<>>)
        NonEmpty(x) == x # ""
    IN  Join(", ", SelectSeq(context_parts, NonEmpty))

\* The philosopher post-filter left out.
PhilosopherStageSkipped(req, rows) == rows

\* The philosopher post-filter.
PhilosopherStage(req, rows) ==
    IF Truthy(req.philosopher_id) /\ Len(rows) > 0
    THEN LET Same(m) == m.philosopher_id = req.philosopher_id
         IN  SelectSeq(rows, Same)
    ELSE rows

\* A stress test that takes a high requested level to mean anxious passages.
StressTestByEmotion(req, m) ==
    /\ req.stress_level = "high"
    /\ \E k \in 1..Len(m.tags.emotions) : m.tags.emotions[k] = "anxiety"

\* The test of the stress-level post-filter on one row.
StressTest(req, m) ==
    \/ Contains(req.stress_level, PyStrList(m.tags.emotions))
    \/ Contains("normal", PyStrTags(m.tags))

\* The rows passing the stress-level test.
StressFiltered(req, rows) ==
    LET Pass(m) == StressTest(req, m)
    IN  SelectSeq(rows, Pass)

\* The stress-level stage without its fallback.
StressStageNoFallback(rows, filtered) == filtered

\* "if stress_filtered: matches = stress_filtered"
StressStage(rows, filtered) == IF Len(filtered) > 0 THEN filtered ELSE rows

\* matches[-5:]: the truncation taken from the wrong end.
SelectTopFromEnd(rows) == SubSeq(rows, Max(1, Len(rows) - 4), Len(rows))

\* matches[:5]
SelectTop(rows) == Take(rows, SelectTopCount)

NoBody ==
    [id |-> None, text |-> None, philosopher |-> None, work |-> None,
     tags |-> None, similarity |-> 0]

NoOutcome == [status |-> 0, detail |-> "", body |-> NoBody]

\* An HTTPException.
HttpError(code, msg) == [status |-> code, detail |-> msg, body |-> NoBody]

\* The QuoteResponse of a row, returned with status 200.
QuoteResponse(top) ==
    [status |-> 200, detail |-> "",
     body |-> [id |-> top.id, text |-> top.text,
               philosopher |-> Title(top.philosopher_id),
               work |-> Title(top.work_id),
               tags |-> top.tags, similarity |-> top.similarity]]

\* What leaves the try block of the search: an HTTPException is an Exception,
\* so "except Exception" turns the 404 raised inside the block into a 500.
SearchTryBlock(sel) ==
    IF Len(sel) = 0
    THEN HttpError(500, "Search error: 404: No matching quotes found")
    ELSE QuoteResponse(sel[1])

StressLevelInputs == {"low", "normal", "elevated", "high", "panic"}

TimeOfDayInputs == {"morning", "night", "dusk"}

PhilosopherInputs == {None, "seneca", "epictetus"}

QueryInputs == {None, "how to face fear"}

QuoteRequests ==
    [stress_level : StressLevelInputs, time_of_day : TimeOfDayInputs,
     is_active : BOOLEAN, philosopher_id : PhilosopherInputs,
     query : QueryInputs]

IdleQuote ==
    /\ q_request = [stress_level |-> "normal", time_of_day |-> "morning",
                    is_active |-> FALSE, philosopher_id |-> None,
                    query |-> None]
    /\ q_pc = "Idle"
    /\ q_trace = <<>>
    /\ context_text = ""
    /\ result_data = <<>>
    /\ pre_stress = <<>>
    /\ stress_filtered = <<>>
    /\ matches = <<>>
    /\ selection = <<>>
    /\ q_outcome = NoOutcome

IdleChunk ==
    /\ paragraphs = <<>>
    /\ min_words = 30
    /\ max_words = 250
    /\ para_idx = 0
    /\ current_chunk = <<>>
    /\ current_word_count = 0
    /\ chunks = <<>>
    /\ c_pc = "idle"

NoMatchOutcome ==
    [status |-> 0, philosopher_id |-> None, philosopher_name |-> None,
     match_reason |-> None, confidence |-> [num |-> 0, den |-> 1]]

IdleMatch ==
    /\ m_request = [user_id |-> "u1", answers |-> <<>>]
    /\ catalog = <<>>
    /\ scores = <<>>
    /\ best_id = None
    /\ match_reason = None
    /\ user_profiles = {}
    /\ m_outcome = NoMatchOutcome
    /\ reason_outcome = None
    /\ m_pc = "idle"

IdleTag ==
    /\ strategy = "rules"
    /\ passages = <<>>
    /\ tagged = <<>>
    /\ batch_start = 0
    /\ results = <<>>
    /\ t_pc = "idle"
    /\ t_log = <<>>
    /\ t_answers = <<>>

\* No segmentation run is in progress.
IdleWork ==
    /\ work_id = "meditations"
    /\ raw_text = <<>>
    /\ w_run = 0
    /\ emitted = <<>>
    /\ chunk_idx = 0
    /\ work_passages = <<>>
    /\ first_ids = <<>>
    /\ embed_start = 0
    /\ export_rows = <<>>
    /\ w_pc = "idle"

\* No concurrent retrieval requests are in flight.
IdleConc ==
    /\ rq_index = {}
    /\ rq_request = <<>>
    /\ rq_pc = <<>>
    /\ rq_context = <<>>
    /\ rq_rows = <<>>
    /\ rq_ext = <<>>
    /\ rq_outcome = <<>>

InitQuote ==
    /\ IdleConc
    /\ IdleChunk
    /\ IdleMatch
    /\ IdleTag
    /\ IdleWork
    /\ q_request \in QuoteRequests
    /\ q_pc = "BuildContext"
    /\ q_trace = <<>>
    /\ context_text = ""
    /\ result_data = <<>>
    /\ pre_stress = <<>>
    /\ stress_filtered = <<>>
    /\ matches = <<>>
    /\ selection = <<>>
    /\ q_outcome = NoOutcome

\* Lines 137-163: build the context string.
BuildContext ==
    /\ UNCHANGED <<chunkVars, matchVars, tagVars, workVars, concVars>>
    /\ q_pc = "BuildContext"
    /\ context_text' = ContextText(q_request)
    /\ q_trace' = Append(q_trace, "BuildContext")
    /\ q_pc' = "Embed"
    /\ UNCHANGED <<q_request, result_data, pre_stress, stress_filtered,
                   matches, selection, q_outcome>>

\* The embedding call followed by the search whatever its result.
AfterEmbedAlwaysSearch(ok) == "Search"

\* Where the request goes after the embedding call: on to the search, or
\* out of the handler with the HTTPException of line 173.
AfterEmbed(ok) == IF ok THEN "Search" ELSE "Done"

\* Lines 165-173: the embedding call, which succeeds or raises.
Embed ==
    /\ UNCHANGED <<chunkVars, matchVars, tagVars, workVars, concVars>>
    /\ q_pc = "Embed"
    /\ q_trace' = Append(q_trace, "Embed")
    /\ \E ok \in BOOLEAN :
        /\ q_pc' = AfterEmbed(ok)
        /\ IF ok
           THEN UNCHANGED q_outcome
           ELSE q_outcome' = HttpError(500, "Embedding error")
    /\ UNCHANGED <<q_request, context_text, result_data, pre_stress,
                   stress_filtered, matches, selection>>

\* Lines 176-184: the match_passages RPC, which returns rows or raises.
Search ==
    /\ UNCHANGED <<chunkVars, matchVars, tagVars, workVars, concVars>>
    /\ q_pc = "Search"
    /\ q_trace' = Append(q_trace, "Search")
    /\ \/ \E S \in SUBSET (1..PoolSize), asc \in BOOLEAN :
            /\ result_data' = MatchPassages(S, asc)
            /\ q_pc' = "Filter"
            /\ UNCHANGED q_outcome
       \/ /\ q_pc' = "Done"
          /\ q_outcome' = HttpError(500, "Search error")
          /\ UNCHANGED result_data
    /\ UNCHANGED <<q_request, context_text, pre_stress, stress_filtered,
                   matches, selection>>

\* Lines 186-219: the post-filters, the truncation and the response.
FilterSelectRespond ==
    /\ UNCHANGED <<chunkVars, matchVars, tagVars, workVars, concVars>>
    /\ q_pc = "Filter"
    /\ LET afterPhil == PhilosopherStage(q_request, result_data)
           filtered == IF Len(afterPhil) > 0
                       THEN StressFiltered(q_request, afterPhil)
                       ELSE <<>>
           final == StressStage(afterPhil, filtered)
           sel == SelectTop(final)
       IN  /\ pre_stress' = afterPhil
           /\ stress_filtered' = filtered
           /\ matches' = final
           /\ selection' = sel
           /\ q_outcome' = SearchTryBlock(sel)
    /\ q_trace' = q_trace \o <<"Filter", "SelectTop", "Respond">>
    /\ q_pc' = "Done"
    /\ UNCHANGED <<q_request, context_text, result_data>>

NextQuote == BuildContext \/ Embed \/ Search \/ FilterSelectRespond

SpecQuote == InitQuote /\ [][NextQuote]_vars

\***************************************************************************
\* Claims about get_contextual_quote
\***************************************************************************

Ran(stage) == \E i \in 1..Len(q_trace) : q_trace[i] = stage

\* C1: whenever the candidate set is empty after the philosopher and
\* stress-level stages (also when the search returned no rows), the request
\* ends with 404 "No matching quotes found" and no other error.
C1_EmptyEndsNotFound ==
    (q_pc = "Done" /\ Ran("SelectTop") /\ Len(matches) = 0)
        => (q_outcome.status = 404
            /\ q_outcome.detail = "No matching quotes found")

\* C2: if the set entering the stress-level stage is non-empty and no row
\* passes the stress-level test, the stage is skipped: the response is the
\* first row of the pre-filter set and the request does not end in NotFound.
C2_StressFallback ==
    (q_pc = "Done" /\ Ran("Filter")
     /\ Len(pre_stress) > 0 /\ Len(stress_filtered) = 0)
        => (/\ matches = pre_stress
            /\ q_outcome.status = 200
            /\ q_outcome.body.id = pre_stress[1].id)

C2_Witness ==
    /\ q_pc = "Done"
    /\ Len(pre_stress) > 1
    /\ Len(stress_filtered) = 0
    /\ q_outcome.status = 200
    /\ Len(pre_stress) < Len(result_data)

\* C10: the passage returned has the highest similarity among the rows that
\* survive the filter stages; the selection keeps at most 5 rows, in
\* descending similarity order, and the response is its first row.
C10_TopBySimilarity ==
    (q_outcome.status = 200)
        => (/\ Len(selection) <= 5
            /\ \A i \in 1..(Len(selection) - 1) :
                   selection[i].similarity >= selection[i + 1].similarity
            /\ q_outcome.body.id = selection[1].id
            /\ \A i \in 1..Len(matches) :
                   q_outcome.body.similarity >= matches[i].similarity)

C10_Witness ==
    /\ q_outcome.status = 200
    /\ Len(matches) > 5
    /\ Len(selection) = 5
    /\ q_outcome.body.similarity > selection[5].similarity
    /\ matches[1].similarity > matches[Len(matches)].similarity

\***************************************************************************
\* scripts/chunk_passages.py: chunk_by_paragraph
\***************************************************************************

\* The largest number of paragraphs of an input text.
MaxParas == 3

\* The largest number of words of a paragraph.
MaxParaWords == 4

\* The largest min_words and max_words tried.
MaxWordsArg == 4

\* The words of paragraph p when it has n words: word k of paragraph p is
\* the token <<p, k>>, so that a chunk tells which paragraphs it holds.
ParagraphWords(p, n) == [k \in 1..n |-> <<p, k>>]

\* A join that keeps the first paragraph of the chunk only.
JoinWordsFirstOnly(paras) == IF Len(paras) = 0 THEN <<>> ELSE Head(paras)

\* " ".join(current_chunk): the words of the paragraphs, in order.
RECURSIVE JoinWords(_)
JoinWords(paras) ==
    IF Len(paras) = 0 THEN <<>>
    ELSE Head(paras) \o JoinWords(Tail(paras))

\* The flush test with ">=" for ">".
ExceedsMaxOffByOne(count, para_words, maxw) == count + para_words >= maxw

\* "current_word_count + para_words > max_words"
ExceedsMax(count, para_words, maxw) == count + para_words > maxw

\* "current_word_count >= min_words"
ReachedMin(count, minw) == count >= minw

InitChunk ==
    /\ IdleQuote
    /\ IdleConc
    /\ IdleMatch
    /\ IdleTag
    /\ IdleWork
    /\ \E n \in 0..MaxParas : \E lens \in [1..n -> 0..MaxParaWords] :
           paragraphs = [p \in 1..n |-> ParagraphWords(p, lens[p])]
    /\ min_words \in 1..MaxWordsArg
    /\ max_words \in min_words..MaxWordsArg
    /\ para_idx = 0
    /\ current_chunk = <<>>
    /\ current_word_count = 0
    /\ chunks = <<>>
    /\ c_pc = "loop"

\* Lines 90-110: one iteration of "for para in paragraphs".
ChunkParagraph ==
    /\ UNCHANGED <<quoteVars, matchVars, tagVars, workVars, concVars>>
    /\ c_pc = "loop"
    /\ para_idx < Len(paragraphs)
    /\ para_idx' = para_idx + 1
    /\ LET para == paragraphs[para_idx + 1]
           para_words == Len(para)
           flush == ExceedsMax(current_word_count, para_words, max_words)
                    /\ Len(current_chunk) > 0
           chunks1 == IF flush
                      THEN Append(chunks, JoinWords(current_chunk))
                      ELSE chunks
           chunk1 == IF flush THEN <<>> ELSE current_chunk
           count1 == IF flush THEN 0 ELSE current_word_count
           chunk2 == Append(chunk1, para)
           count2 == count1 + para_words
       IN  IF para_words = 0
           THEN UNCHANGED <<current_chunk, current_word_count, chunks>>
           ELSE IF ReachedMin(count2, min_words)
           THEN /\ chunks' = Append(chunks1, JoinWords(chunk2))
                /\ current_chunk' = <<>>
                /\ current_word_count' = 0
           ELSE /\ chunks' = chunks1
                /\ current_chunk' = chunk2
                /\ current_word_count' = count2
    /\ UNCHANGED <<paragraphs, min_words, max_words, c_pc>>

\* Lines 112-114: the trailing chunk.
ChunkFinish ==
    /\ UNCHANGED <<quoteVars, matchVars, tagVars, workVars, concVars>>
    /\ c_pc = "loop"
    /\ para_idx = Len(paragraphs)
    /\ chunks' = IF Len(current_chunk) > 0
                 THEN Append(chunks, JoinWords(current_chunk))
                 ELSE chunks
    /\ c_pc' = "done"
    /\ UNCHANGED <<paragraphs, min_words, max_words, para_idx,
                   current_chunk, current_word_count>>

NextChunk == ChunkParagraph \/ ChunkFinish

SpecChunk == InitChunk /\ [][NextChunk]_vars

\***************************************************************************
\* Claims about chunk_by_paragraph
\***************************************************************************

\* The paragraphs a chunk holds words of.
ParagraphsOf(chunk) == {chunk[k][1] : k \in 1..Len(chunk)}

\* C3 as stated: every chunk emitted other than the last has a word count in
\* [min_words, max_words].
C3_AllButLastInRange ==
    (c_pc = "done")
        => \A i \in 1..(Len(chunks) - 1) :
               /\ Len(chunks[i]) >= min_words
               /\ Len(chunks[i]) <= max_words

\* C3 as amended: a chunk has more than max_words words only if it is one
\* single paragraph, and a chunk other than the last has fewer than min_words
\* words only if adding the paragraph that follows it would have exceeded
\* max_words.
C3_RangeUnlessForced ==
    /\ \A i \in 1..Len(chunks) :
           Len(chunks[i]) > max_words => Cardinality(ParagraphsOf(chunks[i])) = 1
    /\ \A i \in 1..(Len(chunks) - 1) :
           Len(chunks[i]) < min_words
               => Len(chunks[i]) + Len(paragraphs[chunks[i + 1][1][1]]) > max_words

C3_Witness ==
    /\ c_pc = "done"
    /\ Len(chunks) = 3
    /\ Len(chunks[1]) < min_words
    /\ Len(chunks[2]) > max_words
    /\ Len(chunks[3]) < min_words

\***************************************************************************
\* api/stoic_api.py: calculate_match_score, match_philosopher
\***************************************************************************

\* The largest number of onboarding answers of a request.
MaxAnswers == 2

\* The largest number of profiles of the catalog.
MaxCatalog == 3

IsSpace(c) == c \in {" ", "\t", "\n"}

\* s.split(): the maximal runs of non-whitespace characters, in order.
Split(s) ==
    LET IsStart(i) == /\ ~IsSpace(SubSeq(s, i, i))
                      /\ (i = 1 \/ IsSpace(SubSeq(s, i - 1, i - 1)))
        starts == {i \in 1..Len(s) : IsStart(i)}
        StartOf(k) == CHOOSE i \in starts :
                          Cardinality({j \in starts : j < i}) = k - 1
        EndOf(i) == CHOOSE j \in i..Len(s) :
                        /\ \A x \in i..j : ~IsSpace(SubSeq(s, x, x))
                        /\ (j = Len(s) \/ IsSpace(SubSeq(s, j + 1, j + 1)))
    IN  [k \in 1..Cardinality(starts) |-> SubSeq(s, StartOf(k), EndOf(StartOf(k)))]

\* d[key] = value on a dict kept as a sequence of [key, value] in insertion
\* order: an existing key keeps its place and takes the new value.
DictPut(d, key, value) ==
    IF \E i \in 1..Len(d) : d[i].key = key
    THEN [i \in 1..Len(d) |->
              IF d[i].key = key THEN [key |-> key, value |-> value] ELSE d[i]]
    ELSE Append(d, [key |-> key, value |-> value])

\* {a.question_id: a.answer.lower() for a in answers}
RECURSIVE AnswerMap(_)
AnswerMap(answers) ==
    IF Len(answers) = 0 THEN <<>>
    ELSE LET a == answers[Len(answers)]
         IN  DictPut(AnswerMap(SubSeq(answers, 1, Len(answers) - 1)),
                     a.question_id, Lower(a.answer))

\* "any(word in answer for word in criterion_lower.split())"
CriterionMatches(criterion, answer) ==
    LET words == Split(Lower(criterion))
    IN  \E k \in 1..Len(words) : Contains(words[k], answer)

\* The number of (criterion, answer) pairs that match, the answers being a
\* sequence of lower-cased strings.
MatchCountOf(criteria, answerValues) ==
    Cardinality({ck \in (1..Len(criteria)) \X (1..Len(answerValues)) :
                    CriterionMatches(criteria[ck[1]], answerValues[ck[2]])})

\* min(1.0, score / max_score) as the fraction num / den.
Normalize(score, n_criteria) ==
    LET max_score == IF n_criteria > 0 THEN n_criteria ELSE 1
    IN  [num |-> Min(score, max_score), den |-> max_score]

\* calculate_match_score(philosopher, answers)
CalculateMatchScore(philosopher, answers) ==
    LET matching_criteria == philosopher.unlock_criteria.matching_criteria
        answer_map == AnswerMap(answers)
        values == [i \in 1..Len(answer_map) |-> answer_map[i].value]
    IN  Normalize(MatchCountOf(matching_criteria, values),
                  Len(matching_criteria))

\* a >= b on fractions.
ScoreGE(a, b) == a.num * b.den >= b.num * a.den

\* The scores dict built by the loop over the catalog.
RECURSIVE ScoresOf(_, _)
ScoresOf(profiles, answers) ==
    IF Len(profiles) = 0 THEN <<>>
    ELSE LET p == profiles[Len(profiles)]
         IN  DictPut(ScoresOf(SubSeq(profiles, 1, Len(profiles) - 1), answers),
                     p.id,
                     [score |-> CalculateMatchScore(p, answers),
                      name |-> p.name])

\* max() that keeps the last of the equal maxima.
ArgMaxLast(d) ==
    LET k == CHOOSE i \in 1..Len(d) :
                 /\ \A j \in 1..Len(d) : ScoreGE(d[i].value.score, d[j].value.score)
                 /\ \A j \in (i + 1)..Len(d) :
                        ~ScoreGE(d[j].value.score, d[i].value.score)
    IN  d[k].key

\* max(scores, key=lambda x: scores[x]["score"]): the first key, in the
\* dict's order, whose score no other key's score exceeds.
ArgMaxFirst(d) ==
    LET k == CHOOSE i \in 1..Len(d) :
                 /\ \A j \in 1..Len(d) : ScoreGE(d[i].value.score, d[j].value.score)
                 /\ \A j \in 1..(i - 1) :
                        ~ScoreGE(d[j].value.score, d[i].value.score)
    IN  d[k].key

\* The rows of the philosophers table (id is its key).
ProfilePool == <<
    [id |-> "marcus_aurelius", name |-> "Marcus Aurelius",
     unlock_criteria |-> [matching_criteria |-> <<"leadership", "Duty to others">>]],
    [id |-> "seneca", name |-> "Seneca",
     unlock_criteria |-> [matching_criteria |-> <<"writing", "solitude">>]],
    [id |-> "epictetus", name |-> "Epictetus",
     unlock_criteria |-> [matching_criteria |-> <<>>]],
    [id |-> "musonius_rufus", name |-> "Musonius Rufus",
     unlock_criteria |-> [matching_criteria |-> <<"Lead">>]] >>

\* The catalogs: the sequences of at most MaxCatalog distinct profiles.
Catalogs ==
    {c \in UNION {[1..n -> 1..Len(ProfilePool)] : n \in 0..MaxCatalog} :
        \A i, j \in 1..Len(c) : i # j => c[i] # c[j]}

AnswerTexts ==
    {"I lead a team and value duty to others",
     "Writing alone, I lead myself",
     "Nothing"}

OnboardingAnswers == [question_id : {"q1", "q2"}, answer : AnswerTexts]

AnswerLists == UNION {[1..n -> OnboardingAnswers] : n \in 0..MaxAnswers}

\* The fallback justification of generate_match_reason.
FallbackReason(philosopher_id) ==
    "Based on your experiences and values, " \o Title(philosopher_id)
    \o "'s teachings resonate with your journey."

ProviderReason == "You both carry responsibility for others."

\* How generate_match_reason's calls end: both return, the profile lookup
\* raises, or the text-generation call raises.
ReasonOutcomes == {"ok", "lookup_error", "provider_error"}

\* A generate_match_reason without the try: the error leaves the function.
GenerateMatchReasonNoTry(philosopher_id, outcome) ==
    IF outcome = "ok" THEN [raised |-> FALSE, text |-> ProviderReason]
    ELSE [raised |-> TRUE, text |-> None]

\* generate_match_reason(philosopher_id, answers): the provider's text, or
\* the fallback of the except clause.
GenerateMatchReason(philosopher_id, outcome) ==
    IF outcome = "ok" THEN [raised |-> FALSE, text |-> ProviderReason]
    ELSE [raised |-> FALSE, text |-> FallbackReason(philosopher_id)]

InitMatch ==
    /\ IdleQuote
    /\ IdleConc
    /\ IdleChunk
    /\ IdleTag
    /\ IdleWork
    /\ m_request \in [user_id : {"u1"}, answers : AnswerLists]
    /\ \E c \in Catalogs : catalog = [i \in 1..Len(c) |-> ProfilePool[c[i]]]
    /\ scores = <<>>
    /\ best_id = None
    /\ match_reason = None
    /\ user_profiles = {}
    /\ m_outcome = NoMatchOutcome
    /\ reason_outcome = None
    /\ m_pc = "score"

\* Lines 229-245: read the catalog, score every profile, select the best.
\* max() of an empty dict raises ValueError, which ends the request.
MatchScore ==
    /\ UNCHANGED <<quoteVars, chunkVars, tagVars, workVars, concVars>>
    /\ m_pc = "score"
    /\ scores' = ScoresOf(catalog, m_request.answers)
    /\ IF Len(catalog) = 0
       THEN /\ m_pc' = "done"
            /\ m_outcome' = [NoMatchOutcome EXCEPT !.status = 500]
            /\ UNCHANGED best_id
       ELSE /\ best_id' = ArgMaxFirst(scores')
            /\ m_pc' = "reason"
            /\ UNCHANGED m_outcome
    /\ UNCHANGED <<m_request, catalog, match_reason, user_profiles,
                   reason_outcome>>

\* Lines 247-248, 295-327: the justification, from the provider or, when the
\* lookup or the provider raises, the fallback string.
MatchReason ==
    /\ UNCHANGED <<quoteVars, chunkVars, tagVars, workVars, concVars>>
    /\ m_pc = "reason"
    /\ \E outcome \in ReasonOutcomes :
           LET r == GenerateMatchReason(best_id, outcome)
           IN  /\ reason_outcome' = outcome
               /\ IF r.raised
                  THEN /\ m_pc' = "done"
                       /\ m_outcome' = [NoMatchOutcome EXCEPT !.status = 500]
                       /\ UNCHANGED match_reason
                  ELSE /\ match_reason' = r.text
                       /\ m_pc' = "save"
                       /\ UNCHANGED m_outcome
    /\ UNCHANGED <<m_request, catalog, scores, best_id, user_profiles>>

\* Lines 250-262: upsert the user profile and respond; the upsert may raise.
MatchSave ==
    /\ UNCHANGED <<quoteVars, chunkVars, tagVars, workVars, concVars>>
    /\ m_pc = "save"
    /\ \E ok \in BOOLEAN :
        IF ok
        THEN LET best == (CHOOSE i \in 1..Len(scores) : scores[i].key = best_id)
             IN  /\ user_profiles' =
                        {r \in user_profiles : r.user_id # m_request.user_id}
                        \cup {[user_id |-> m_request.user_id,
                               matched_philosopher_id |-> best_id,
                               onboarding_answers |-> m_request.answers]}
                 /\ m_outcome' =
                        [status |-> 200, philosopher_id |-> best_id,
                         philosopher_name |-> scores[best].value.name,
                         match_reason |-> match_reason,
                         confidence |-> scores[best].value.score]
        ELSE /\ m_outcome' = [NoMatchOutcome EXCEPT !.status = 500]
             /\ UNCHANGED user_profiles
    /\ m_pc' = "done"
    /\ UNCHANGED <<m_request, catalog, scores, best_id, match_reason,
                   reason_outcome>>

NextMatch == MatchScore \/ MatchReason \/ MatchSave

SpecMatch == InitMatch /\ [][NextMatch]_vars

\***************************************************************************
\* Claims about calculate_match_score and match_philosopher
\***************************************************************************

\* The score of C8: N counted over every answer of the request.
ClaimedScore(p, answers) ==
    LET criteria == p.unlock_criteria.matching_criteria
        all == [i \in 1..Len(answers) |-> Lower(answers[i].answer)]
        N == MatchCountOf(criteria, all)
        C == Len(criteria)
    IN  [num |-> Min(N, Max(1, C)), den |-> Max(1, C)]

\* C8: calculate_match_score returns min(1, N / max(1, C)), C the number of
\* criterion phrases and N the number of (phrase, answer) pairs, over every
\* answer of the request, in which the answer contains a word of the phrase;
\* a profile with no criterion phrases scores 0.
C8_ScoreCountsEveryAnswer ==
    \A i \in 1..Len(scores) :
        \A k \in 1..Len(catalog) :
            catalog[k].id = scores[i].key
                => scores[i].value.score = ClaimedScore(catalog[k], m_request.answers)

\* C9: match_philosopher selects a profile whose score is the maximum over
\* the catalog and, among the profiles tied at the maximum, the first in the
\* catalog's order; the selection is a function of the catalog order and the
\* answers.
C9_FirstMaximum ==
    (m_pc = "reason")
        => LET sc == [k \in 1..Len(catalog) |->
                         CalculateMatchScore(catalog[k], m_request.answers)]
           IN  \E k \in 1..Len(catalog) :
                   /\ catalog[k].id = best_id
                   /\ \A j \in 1..Len(catalog) : ScoreGE(sc[k], sc[j])
                   /\ \A j \in 1..(k - 1) : ~ScoreGE(sc[j], sc[k])

C9_Witness ==
    /\ m_pc = "reason"
    /\ Len(catalog) = 3
    /\ best_id = catalog[2].id
    /\ scores[3].value.score = scores[2].value.score
    /\ scores[2].value.score.num > 0

\***************************************************************************
\* scripts/tag_rules.py: the rule-based tagger
\***************************************************************************

\* CONCEPT_KEYWORDS, in declaration order.
CONCEPT_KEYWORDS == <<
    [category |-> "dichotomy_of_control",
     keywords |->
         <<"control", "power over", "in our power",
           "not in our power", "up to us", "not up to us",
           "depends on us", "our choice", "within our control",
           "outside our control", "cannot control">>],
    [category |-> "inner_citadel",
     keywords |->
         <<"inner", "citadel", "fortress", "mind", "soul",
           "ruling", "governing", "retreat", "within yourself",
           "inside">>],
    [category |-> "premeditatio_malorum",
     keywords |->
         <<"anticipate", "prepare", "expect", "foresee",
           "imagine", "what if", "might happen", "could happen",
           "worst">>],
    [category |-> "memento_mori",
     keywords |->
         <<"death", "die", "dying", "mortal", "mortality",
           "finite", "last day", "end", "life is short", "brief",
           "fleeting">>],
    [category |-> "amor_fati",
     keywords |->
         <<"fate", "accept", "acceptance", "embrace", "love",
           "welcome", "providence", "universe", "nature",
           "meant to be">>],
    [category |-> "impermanence",
     keywords |->
         <<"change", "changing", "pass", "passing", "temporary",
           "transient", "nothing lasts", "all things", "flow",
           "flux", "moment">>],
    [category |-> "present_moment",
     keywords |->
         <<"present", "now", "today", "this moment", "current",
           "immediate", "at hand", "before you">>],
    [category |-> "living_according_to_nature",
     keywords |->
         <<"nature", "natural", "according to nature", "rational",
           "reason", "logos", "universal", "cosmos">>] >>

\* VIRTUE_KEYWORDS, in declaration order.
VIRTUE_KEYWORDS == <<
    [category |-> "wisdom",
     keywords |->
         <<"wisdom", "wise", "knowledge", "understand",
           "judgment", "discern", "learn", "truth", "reason",
           "rational">>],
    [category |-> "courage",
     keywords |->
         <<"courage", "brave", "bravery", "fear", "fearless",
           "bold", "endure", "persist", "strength", "fortitude",
           "stand firm">>],
    [category |-> "justice",
     keywords |->
         <<"justice", "just", "fair", "duty", "obligation",
           "right", "wrong", "others", "society", "fellow",
           "citizen">>],
    [category |-> "temperance",
     keywords |->
         <<"temperance", "moderate", "moderation", "restrain",
           "control", "self-control", "discipline", "excess",
           "pleasure", "desire">>] >>

\* PRACTICE_KEYWORDS, in declaration order.
PRACTICE_KEYWORDS == <<
    [category |-> "morning_reflection",
     keywords |->
         <<"morning", "dawn", "arise", "wake", "begin the day",
           "start">>],
    [category |-> "evening_review",
     keywords |->
         <<"evening", "night", "end of day", "review", "examine",
           "reflect", "sleep", "bed">>],
    [category |-> "journaling",
     keywords |->
         <<"write", "record", "note", "journal", "yourself">>],
    [category |-> "self_examination",
     keywords |->
         <<"examine", "ask yourself", "question", "reflect",
           "consider", "think about", "look within">>] >>

\* SITUATION_KEYWORDS, in declaration order.
SITUATION_KEYWORDS == <<
    [category |-> "difficult_people",
     keywords |->
         <<"people", "others", "man", "men", "someone", "they",
           "difficult", "annoying", "fool", "ignorant", "enemy">>],
    [category |-> "anger_management",
     keywords |->
         <<"anger", "angry", "rage", "fury", "temper", "irritate",
           "provoke", "offend", "insult">>],
    [category |-> "anxiety",
     keywords |->
         <<"anxious", "anxiety", "worry", "fear", "troubled",
           "disturbed", "concern", "uneasy", "restless">>],
    [category |-> "grief",
     keywords |->
         <<"grief", "grieve", "loss", "lost", "mourn", "sorrow",
           "sadness", "death of", "passed away">>],
    [category |-> "failure",
     keywords |->
         <<"fail", "failure", "mistake", "error", "wrong",
           "setback", "disappoint", "fall short">>],
    [category |-> "success",
     keywords |->
         <<"success", "achieve", "accomplish", "triumph",
           "victory", "praise", "fame", "honor">>],
    [category |-> "leadership",
     keywords |->
         <<"lead", "leader", "rule", "govern", "command",
           "authority", "power", "emperor", "king">>],
    [category |-> "health_challenges",
     keywords |->
         <<"sick", "illness", "disease", "pain", "body", "health",
           "suffer", "affliction">>],
    [category |-> "time_management",
     keywords |->
         <<"time", "busy", "hurry", "waste", "spend",
           "life is short", "procrastinate", "delay">>],
    [category |-> "finding_purpose",
     keywords |->
         <<"purpose", "meaning", "why", "reason", "goal", "aim",
           "direction", "calling">>] >>

\* EMOTION_KEYWORDS, in declaration order.
EMOTION_KEYWORDS == <<
    [category |-> "anger",
     keywords |->
         <<"anger", "angry", "rage", "fury", "wrath", "irritate">>],
    [category |-> "fear",
     keywords |->
         <<"fear", "afraid", "terror", "dread", "scary",
           "frighten">>],
    [category |-> "anxiety",
     keywords |->
         <<"anxious", "anxiety", "worry", "worried", "nervous">>],
    [category |-> "grief",
     keywords |->
         <<"grief", "sorrow", "mourn", "sad", "sadness", "loss">>],
    [category |-> "joy",
     keywords |->
         <<"joy", "happy", "happiness", "delight", "pleasure",
           "glad">>],
    [category |-> "frustration",
     keywords |->
         <<"frustrate", "annoyed", "irritate", "vexed">>],
    [category |-> "peace",
     keywords |->
         <<"peace", "calm", "tranquil", "serene", "quiet",
           "still">>] >>

\* find_keywords(text, keyword_dict): the categories, in table order, one of
\* whose keywords is a substring of the lower-cased text.
FindKeywords(text, keyword_dict) ==
    LET text_lower == Lower(text)
        Hit(e) == \E k \in 1..Len(e.keywords) :
                      Contains(Lower(e.keywords[k]), text_lower)
        hits == SelectSeq(keyword_dict, Hit)
    IN  [i \in 1..Len(hits) |-> hits[i].category]

\* sum(1 for w in words if w in text_lower)
CountIn(words, text_lower) ==
    Cardinality({k \in 1..Len(words) : Contains(words[k], text_lower)})

\* min(10, max(1, score))
Clamp(score) == Min(10, Max(1, score))

\* assess_difficulty(text)
AssessDifficulty(text) ==
    LET text_lower == Lower(text)
        advanced_count ==
            CountIn(<<"indifferent", "preferred", "logos", "hegemonikon",
                      "prohairesis", "oikeiosis", "cosmopolitan",
                      "determinism">>, text_lower)
        intermediate_count ==
            CountIn(<<"virtue", "rational", "nature", "providence", "soul",
                      "judgment", "impression", "assent">>, text_lower)
    IN  IF advanced_count >= 2 THEN "advanced"
        ELSE IF intermediate_count >= 2 \/ advanced_count >= 1
        THEN "intermediate"
        ELSE "beginner"

IsWordChar(c) == IsLetter(c) \/ Contains(c, "0123456789_")

\* re.search(r"\b" + phrase + r"\b", text) for a phrase of word characters
\* and spaces.
WordSearch(phrase, text) ==
    \E i \in 1..(Len(text) - Len(phrase) + 1) :
        LET j == i + Len(phrase) - 1
        IN  /\ SubSeq(text, i, j) = phrase
            /\ (i = 1 \/ ~IsWordChar(SubSeq(text, i - 1, i - 1)))
            /\ (j = Len(text) \/ ~IsWordChar(SubSeq(text, j + 1, j + 1)))

\* assess_quotability(text)
AssessQuotability(text) ==
    LET word_count == Len(Split(text))
        by_length == IF word_count < 50 THEN 2
                     ELSE IF word_count < 100 THEN 1
                     ELSE IF word_count > 200 THEN -2
                     ELSE 0
        advice_patterns == <<"do not", "never", "always", "must", "should",
                             "remember", "let", "begin">>
        advice == IF \E k \in 1..Len(advice_patterns) :
                        WordSearch(advice_patterns[k], Lower(text))
                  THEN 1 ELSE 0
        question == IF Contains("?", text) THEN 1 ELSE 0
    IN  Clamp(5 + by_length + advice + question)

\* assess_comfort(text)
AssessComfort(text) ==
    LET text_lower == Lower(text)
        comfort_score ==
            CountIn(<<"peace", "calm", "gentle", "accept", "rest", "ease",
                      "content", "tranquil", "serene", "grateful">>, text_lower)
        challenge_score ==
            CountIn(<<"must", "should", "stop", "cease", "wrong", "foolish",
                      "lazy", "weak", "excuse", "complain">>, text_lower)
    IN  Clamp(5 + comfort_score - challenge_score)

\* assess_actionability(text)
AssessActionability(text) ==
    Clamp(5 + CountIn(<<"do", "practice", "try", "begin", "start", "stop",
                        "when you", "if you", "every day", "each morning",
                        "remind yourself", "tell yourself", "ask yourself">>,
                      Lower(text)))

\* "x in list"
InSeq(x, l) == \E i \in 1..Len(l) : l[i] = x

StressLevelValues == <<"low", "normal", "elevated", "high">>

TimeOfDayValues == <<"morning", "midday", "evening", "night">>

DifficultyValues == <<"beginner", "intermediate", "advanced">>

\* list(set(l)) for enum members: each member once. Python leaves the order
\* open; the enum's order is taken.
ListOfSet(l, enum) ==
    LET Present(x) == InSeq(x, l)
    IN  SelectSeq(enum, Present)

\* map_to_health_context(tags)
MapToHealthContext(tags) ==
    LET s1 == IF \E e \in {"anger", "anxiety", "fear"} : InSeq(e, tags.emotions)
              THEN <<"elevated", "high">> ELSE <<>>
        s2 == IF \E x \in {"anger_management", "anxiety", "difficult_people"} :
                     InSeq(x, tags.situations)
              THEN <<"elevated", "high">> ELSE <<>>
        s3 == IF InSeq("peace", tags.emotions)
                 \/ InSeq("acceptance", tags.primary_concepts)
              THEN <<"low">> ELSE <<>>
        found == s1 \o s2 \o s3
        stress_levels == IF Len(found) = 0 THEN <<"normal">> ELSE found
        t1 == IF InSeq("morning_reflection", tags.practices)
              THEN <<"morning">> ELSE <<>>
        t2 == IF InSeq("evening_review", tags.practices)
              THEN <<"evening">> ELSE <<>>
        t3 == IF InSeq("memento_mori", tags.primary_concepts)
              THEN <<"evening", "night">> ELSE <<>>
        t4 == IF \E c \in {"premeditatio_malorum", "present_moment"} :
                     InSeq(c, tags.primary_concepts)
              THEN <<"morning">> ELSE <<>>
        times == t1 \o t2 \o t3 \o t4
        times_of_day == IF Len(times) = 0
                        THEN <<"morning", "midday", "evening">>
                        ELSE times
    IN  [stress_levels |-> ListOfSet(stress_levels, StressLevelValues),
         activity_states |-> <<>>,
         times_of_day |-> ListOfSet(times_of_day, TimeOfDayValues)]

\* The stages of a JourneyContext built from a difficulty.
StagesFor(difficulty) ==
    IF difficulty = "beginner" THEN <<"newcomer">> ELSE <<"building_habits">>

\* "Project Gutenberg" in text or "START OF" in text or "END OF" in text
IsBoilerplateForRules(text) ==
    \/ Contains("Project Gutenberg", text)
    \/ Contains("START OF", text)
    \/ Contains("END OF", text)

\* tag_rules.tag_passage(passage)
RuleTagPassage(passage) ==
    IF IsBoilerplateForRules(passage.text) THEN passage
    ELSE LET text == passage.text
             tags == [primary_concepts |-> Take(FindKeywords(text, CONCEPT_KEYWORDS), 3),
                      virtues |-> Take(FindKeywords(text, VIRTUE_KEYWORDS), 2),
                      practices |-> Take(FindKeywords(text, PRACTICE_KEYWORDS), 2),
                      situations |-> Take(FindKeywords(text, SITUATION_KEYWORDS), 3),
                      emotions |-> Take(FindKeywords(text, EMOTION_KEYWORDS), 3)]
             difficulty == AssessDifficulty(text)
         IN  [passage EXCEPT
                  !.tags = tags,
                  !.metadata = [quotability |-> AssessQuotability(text),
                                actionability |-> AssessActionability(text),
                                comfort |-> AssessComfort(text)],
                  !.journey_context = [stages |-> StagesFor(difficulty),
                                       difficulty |-> difficulty],
                  !.health_context = MapToHealthContext(tags)]

\* The passage texts tried.
TextSamples == <<
    "It is not things that disturb us, but our judgments about things. When you are anxious, examine your judgment first.",
    "The Project Gutenberg eBook of Meditations, by Marcus Aurelius, is for the use of anyone anywhere.",
    "Death and fate are in our power to accept now; fear not, for the mind follows nature and change.",
    "Be at peace. Rest in calm, gentle ease; be content and grateful, serene and tranquil at last.",
    "Begin the morning. Do not stop.",
    "You must stop. You should cease this foolish, lazy, weak excuse and complain no more of wrong." >>

\* A Passage as process_work creates it: no tags, empty contexts, the
\* default scores.
NewPassage(i, text) ==
    [id |-> "meditations_" \o ToString(i),
     text |-> text,
     tags |-> [primary_concepts |-> <<>>, virtues |-> <<>>, practices |-> <<>>,
               situations |-> <<>>, emotions |-> <<>>],
     health_context |-> [stress_levels |-> <<>>, activity_states |-> <<>>,
                         times_of_day |-> <<>>],
     journey_context |-> [stages |-> <<>>, difficulty |-> "beginner"],
     metadata |-> [quotability |-> 5, actionability |-> 5, comfort |-> 5]]

(***************************************************************************)
(* External tagging: tag_openai.py and tag_passages.py.  A provider's      *)
(* answer, once json.loads has parsed it, is a JSON value: a value is a    *)
(* record [t, v] with t its JSON type and v its content; an object's       *)
(* content is a function from its keys.                                    *)
(***************************************************************************)
JList(l) == [t |-> "list", v |-> l]

JStr(s) == [t |-> "str", v |-> s]

JInt(n) == [t |-> "int", v |-> n]

JDict(f) == [t |-> "dict", v |-> f]

\* {}: what tag_passage returns when it skips a passage or catches an error.
EmptyDict == JDict(<<>>)

\* "not tags" is false for a non-empty dict or list.
JTruthy(j) ==
    CASE j.t = "dict" -> DOMAIN j.v # {}
      [] j.t = "list" -> Len(j.v) > 0
      [] j.t = "str" -> j.v # ""
      [] j.t = "int" -> j.v # 0

\* tags.get(key, default)
Get(d, key, default) == IF key \in DOMAIN d THEN d[key] ELSE default

\* An answer that follows the prompt.
GoodAnswer ==
    JDict("primary_concepts" :> JList(<<"dichotomy_of_control", "virtue">>)
       @@ "virtues" :> JList(<<"wisdom">>)
       @@ "practices" :> JList(<<"evening_review">>)
       @@ "situations" :> JList(<<"anxiety">>)
       @@ "emotions" :> JList(<<"anxiety", "fear">>)
       @@ "stress_levels" :> JList(<<"elevated", "high">>)
       @@ "times_of_day" :> JList(<<"evening">>)
       @@ "difficulty" :> JStr("intermediate")
       @@ "quotability" :> JInt(8)
       @@ "actionability" :> JInt(6)
       @@ "comfort" :> JInt(7))

\* A well-formed answer that ignores the prompt's counts, names and ranges.
OverAnswer ==
    JDict("primary_concepts" :>
              JList(<<"virtue", "memento_mori", "amor_fati", "logos">>)
       @@ "virtues" :> JList(<<"wisdom", "courage", "justice">>)
       @@ "practices" :>
              JList(<<"journaling", "evening_review", "self_examination">>)
       @@ "situations" :> JList(<<"grief", "loss", "illness", "death">>)
       @@ "emotions" :> JList(<<"fear", "grief", "anger", "anxiety">>)
       @@ "stress_levels" :> JList(<<"calm">>)
       @@ "times_of_day" :> JList(<<>>)
       @@ "difficulty" :> JStr("expert")
       @@ "quotability" :> JInt(15)
       @@ "actionability" :> JInt(0)
       @@ "comfort" :> JInt(-3))

\* An answer with bare strings for the two lists, and nothing else.
StringAnswer ==
    JDict("stress_levels" :> JStr("high")
       @@ "times_of_day" :> JStr("night")
       @@ "difficulty" :> JStr("advanced"))

\* Parsed answers whose fields have the wrong shape.
WrongShapeTags == JDict("primary_concepts" :> JInt(5))

WrongShapeStress ==
    JDict("primary_concepts" :> JList(<<"virtue">>)
       @@ "stress_levels" :> JInt(3))

\* A parsed answer that is a JSON array.
ListAnswer == JList(<<"virtue">>)

\* What one provider call can end in: the call raises, the text does not
\* parse, or json.loads returns a value.
ProviderOutcomes == <<
    [kind |-> "error", value |-> EmptyDict],
    [kind |-> "unparsable", value |-> EmptyDict],
    [kind |-> "parsed", value |-> EmptyDict],
    [kind |-> "parsed", value |-> GoodAnswer],
    [kind |-> "parsed", value |-> OverAnswer],
    [kind |-> "parsed", value |-> StringAnswer],
    [kind |-> "parsed", value |-> WrongShapeTags],
    [kind |-> "parsed", value |-> WrongShapeStress],
    [kind |-> "parsed", value |-> ListAnswer] >>

\* tag_openai.tag_passage's skip: no provider call is made.
IsSkippedForOpenAI(text) ==
    Contains("Project Gutenberg", text) \/ Len(text) < 50

\* What tag_passage returns for an outcome of the provider call: the except
\* clause turns a raised call or a parse error into {}.
TagPassageResult(outcome) ==
    IF outcome.kind = "parsed" THEN outcome.value ELSE EmptyDict

Strategies == {"rules", "openai", "anthropic"}

\* value[:n] in tag_openai.apply_tags; tag_passages.apply_tags passes the
\* provider's list on as it is.
Capped(strat, l, n) == IF strat = "openai" THEN Take(l, n) ELSE l

\* The times_of_day default of the two apply_tags.
DefaultTimes(strat) ==
    IF strat = "openai" THEN <<"morning">> ELSE <<"morning", "evening">>

\* "if isinstance(x, str): x = [x]"
Listify(j) == IF j.t = "str" THEN JList(<<j.v>>) ELSE j

\* [E(x) for x in l if x in E._value2member_map_]
EnumMembers(l, enum) ==
    LET Member(x) == InSeq(x, enum)
    IN  SelectSeq(l, Member)

\* apply_tags(passage, tags) of tag_openai.py (strat = "openai") and of
\* tag_passages.py (strat = "anthropic"): the passage as the call leaves it,
\* and whether the call raised.  The passage is mutated statement by
\* statement, so a call that raises leaves the assignments made before it.
ApplyTags(strat, passage, tags) ==
    IF ~JTruthy(tags) THEN [passage |-> passage, raised |-> FALSE]
    ELSE IF tags.t # "dict"
    THEN \* tags.get: AttributeError
         [passage |-> passage, raised |-> TRUE]
    ELSE
    LET d == tags.v
        TagList(key) == Get(d, key, JList(<<>>))
        \* slicing a number raises TypeError, PassageTags rejects what is
        \* not a list
        tags_ok == \A key \in {"primary_concepts", "virtues", "practices",
                               "situations", "emotions"} :
                       TagList(key).t = "list"
        p1 == [passage EXCEPT !.tags =
                  [primary_concepts |->
                       Capped(strat, TagList("primary_concepts").v, 3),
                   virtues |-> Capped(strat, TagList("virtues").v, 2),
                   practices |-> Capped(strat, TagList("practices").v, 2),
                   situations |-> Capped(strat, TagList("situations").v, 3),
                   emotions |-> Capped(strat, TagList("emotions").v, 3)]]
        stress == Listify(Get(d, "stress_levels", JList(<<"normal">>)))
        times == Listify(Get(d, "times_of_day", JList(DefaultTimes(strat))))
        \* iterating over a number raises TypeError
        context_ok == stress.t = "list" /\ times.t = "list"
        p2 == [p1 EXCEPT !.health_context =
                  [stress_levels |-> EnumMembers(stress.v, StressLevelValues),
                   activity_states |-> IF strat = "anthropic"
                                       THEN <<"sedentary">> ELSE <<>>,
                   times_of_day |-> EnumMembers(times.v, TimeOfDayValues)]]
        diff == Get(d, "difficulty", JStr("beginner"))
        \* "diff in dict" raises TypeError for an unhashable diff
        diff_ok == diff.t \in {"str", "int"}
        p3 == [p2 EXCEPT !.journey_context =
                  [stages |-> IF diff.t = "str" /\ diff.v = "beginner"
                              THEN <<"newcomer">> ELSE <<"building_habits">>,
                   difficulty |-> IF diff.t = "str"
                                     /\ InSeq(diff.v, DifficultyValues)
                                  THEN diff.v ELSE "beginner"]]
        p4 == [p3 EXCEPT !.metadata =
                  [quotability |-> Get(d, "quotability", JInt(5)).v,
                   actionability |-> Get(d, "actionability", JInt(5)).v,
                   comfort |-> Get(d, "comfort", JInt(5)).v]]
    IN  IF ~tags_ok THEN [passage |-> passage, raised |-> TRUE]
        ELSE IF ~context_ok THEN [passage |-> p1, raised |-> TRUE]
        ELSE IF ~diff_ok THEN [passage |-> p2, raised |-> TRUE]
        ELSE [passage |-> p4, raised |-> FALSE]

(***************************************************************************)
(* A tagging run: tag_rules.tag_all_passages, tag_openai.tag_all and       *)
(* tag_passages.tag_all_passages.  The passages are objects mutated in     *)
(* place; tagged holds the positions of the passages appended to the       *)
(* output list.                                                            *)
(***************************************************************************)
MaxPassages == 3

BatchSize == 2

\* The slot of a tag_passage call that has not returned yet.
Pending == [t |-> "pending", v |-> 0]

\* "for passage, tags in zip(batch, results): tagged.append(apply_tags(...))"
\* from position k on: the passages afterwards, how many were appended, and
\* whether apply_tags raised.
RECURSIVE ApplyZip(_, _, _, _, _)
ApplyZip(strat, ps, start, res, k) ==
    IF k > Len(res)
    THEN [passages |-> ps, applied |-> k - 1, raised |-> FALSE]
    ELSE LET r == ApplyTags(strat, ps[start + k], res[k])
             ps1 == [ps EXCEPT ![start + k] = r.passage]
         IN  IF r.raised
             THEN [passages |-> ps1, applied |-> k - 1, raised |-> TRUE]
             ELSE ApplyZip(strat, ps1, start, res, k + 1)

\* One entry of the history of the external loop: a provider request issued
\* for passage i, the tag_passage call for passage i returned, the tags of
\* passage i applied, or the delay after the batch that starts at passage i
\* elapsed.
Event(e, i) == [e |-> e, i |-> i]

\* gather starts the tag_passage calls of a batch in the order of the batch;
\* each runs up to its provider request at once.  tag_openai.tag_passage
\* returns before the request for a passage it skips.
RequestsOf(strat, ps, start, size) ==
    LET all == [k \in 1..size |-> Event("request", start + k)]
        Issued(ev) == ~(strat = "openai" /\ IsSkippedForOpenAI(ps[ev.i].text))
    IN  SelectSeq(all, Issued)

InitTag ==
    /\ IdleQuote
    /\ IdleConc
    /\ IdleChunk
    /\ IdleMatch
    /\ IdleWork
    /\ strategy \in Strategies
    /\ \E n \in 0..MaxPassages : \E offset \in 0..(Len(TextSamples) - 1) :
           passages = [i \in 1..n |->
               NewPassage(i, TextSamples[((i - 1 + offset)
                                             % Len(TextSamples)) + 1])]
    /\ tagged = <<>>
    /\ batch_start = 0
    /\ results = <<>>
    /\ t_pc = "loop"
    /\ t_log = <<>>
    /\ t_answers = [i \in 1..Len(passages) |-> Pending]

\* tag_rules.tag_all_passages: one turn of "for passage in passages".
RuleTagNext ==
    /\ strategy = "rules"
    /\ t_pc = "loop"
    /\ batch_start < Len(passages)
    /\ passages' = [passages EXCEPT ![batch_start + 1] = RuleTagPassage(@)]
    /\ tagged' = Append(tagged, batch_start + 1)
    /\ batch_start' = batch_start + 1
    /\ UNCHANGED <<strategy, results, t_pc, t_log, t_answers>>
    /\ UNCHANGED <<quoteVars, chunkVars, matchVars, workVars, concVars>>

\* tag_all: batch = passages[i:i + batch_size]; one tag_passage task per
\* passage of the batch is handed to asyncio.gather.
StartBatch ==
    /\ strategy \in {"openai", "anthropic"}
    /\ t_pc = "loop"
    /\ batch_start < Len(passages)
    /\ results' = [k \in 1..Min(BatchSize, Len(passages) - batch_start) |->
                      Pending]
    /\ t_pc' = "gather"
    /\ t_log' = t_log \o RequestsOf(strategy, passages, batch_start,
                                   Min(BatchSize, Len(passages) - batch_start))
    /\ UNCHANGED <<strategy, passages, tagged, batch_start, t_answers>>
    /\ UNCHANGED <<quoteVars, chunkVars, matchVars, workVars, concVars>>

\* A results list filled in the order the calls complete: the first slot
\* that is still pending.
CompletionSlot(k, res) ==
    CHOOSE s \in 1..Len(res) :
        res[s].t = "pending" /\ \A u \in 1..(s - 1) : res[u].t # "pending"

\* "results = await asyncio.gather(*tasks)": the result of the k-th task is
\* the k-th element of results, whenever the task completes.
ResultSlot(k, res) == k

\* The tag_passage call for the k-th passage of the batch returns; the
\* calls of a batch return in any order.
TagPassage(k) ==
    /\ t_pc = "gather"
    /\ k \in 1..Len(results)
    /\ results[k].t = "pending"
    /\ \E r \in IF strategy = "openai"
                    /\ IsSkippedForOpenAI(passages[batch_start + k].text)
                 THEN {EmptyDict}
                 ELSE {TagPassageResult(ProviderOutcomes[o]) :
                           o \in 1..Len(ProviderOutcomes)} :
           /\ results' = [results EXCEPT ![ResultSlot(k, results)] = r]
           /\ t_answers' = [t_answers EXCEPT ![batch_start + k] = r]
    /\ t_log' = Append(t_log, Event("return", batch_start + k))
    /\ UNCHANGED <<strategy, passages, tagged, batch_start, t_pc>>
    /\ UNCHANGED <<quoteVars, chunkVars, matchVars, workVars, concVars>>

\* gather has returned: the zip loop applies the tags.  An exception of
\* apply_tags is caught nowhere and ends tag_all.
ApplyBatch ==
    /\ t_pc = "gather"
    /\ \A k \in 1..Len(results) : results[k].t # "pending"
    /\ LET r == ApplyZip(strategy, passages, batch_start, results, 1)
       IN  /\ passages' = r.passages
           /\ tagged' = tagged \o [j \in 1..r.applied |-> batch_start + j]
           /\ t_pc' = IF r.raised THEN "aborted" ELSE "sleep"
           /\ t_log' = t_log \o [j \in 1..r.applied |->
                                     Event("apply", batch_start + j)]
    /\ UNCHANGED <<strategy, batch_start, results, t_answers>>
    /\ UNCHANGED <<quoteVars, chunkVars, matchVars, workVars, concVars>>

\* The loop going on to the next batch with the sleep not awaited: no
\* delay has elapsed.
SleepNotAwaited ==
    /\ t_pc = "sleep"
    /\ batch_start' = batch_start + BatchSize
    /\ t_pc' = "loop"
    /\ UNCHANGED <<strategy, passages, tagged, results, t_log, t_answers>>
    /\ UNCHANGED <<quoteVars, chunkVars, matchVars, workVars, concVars>>

\* "await asyncio.sleep(...)" ends; the range moves on by batch_size.
Sleep ==
    /\ t_pc = "sleep"
    /\ batch_start' = batch_start + BatchSize
    /\ t_pc' = "loop"
    /\ t_log' = Append(t_log, Event("delay", batch_start + 1))
    /\ UNCHANGED <<strategy, passages, tagged, results, t_answers>>
    /\ UNCHANGED <<quoteVars, chunkVars, matchVars, workVars, concVars>>

\* The loop is exhausted: "return tagged".
ReturnTagged ==
    /\ t_pc = "loop"
    /\ batch_start >= Len(passages)
    /\ t_pc' = "done"
    /\ UNCHANGED <<strategy, passages, tagged, batch_start, results, t_log,
                 t_answers>>
    /\ UNCHANGED <<quoteVars, chunkVars, matchVars, workVars, concVars>>

NextTag ==
    \/ RuleTagNext
    \/ StartBatch
    \/ \E k \in 1..BatchSize : TagPassage(k)
    \/ ApplyBatch
    \/ Sleep
    \/ ReturnTagged

SpecTag == InitTag /\ [][NextTag]_vars

\* The passages of the output list.
Output == [j \in 1..Len(tagged) |-> passages[tagged[j]]]

\* C4: after a tagging run by either strategy no passage of the output has
\* an empty health_context.stress_levels or an empty
\* health_context.times_of_day.
C4_HealthContextNeverEmpty ==
    t_pc = "done" =>
        \A j \in 1..Len(Output) :
            /\ Output[j].health_context.stress_levels # <<>>
            /\ Output[j].health_context.times_of_day # <<>>

\* C5: every passage tagged by any strategy has at most 3 primary_concepts,
\* 2 virtues, 2 practices, 3 situations and 3 emotions.
C5_TagCaps ==
    \A j \in 1..Len(Output) :
        /\ Len(Output[j].tags.primary_concepts) <= 3
        /\ Len(Output[j].tags.virtues) <= 2
        /\ Len(Output[j].tags.practices) <= 2
        /\ Len(Output[j].tags.situations) <= 3
        /\ Len(Output[j].tags.emotions) <= 3

\* C6: after tagging by either strategy quotability, actionability and
\* comfort of every passage are in 1..10.
C6_ScoresInRange ==
    \A j \in 1..Len(Output) :
        /\ Output[j].metadata.quotability \in 1..10
        /\ Output[j].metadata.actionability \in 1..10
        /\ Output[j].metadata.comfort \in 1..10

\* C7: in the external strategy no answer for one passage aborts the run:
\* tag_all never ends in an exception, and when it returns, the output is
\* every input passage.
C7_FailureNeverAborts ==
    strategy \in {"openai", "anthropic"} =>
        /\ t_pc # "aborted"
        /\ (t_pc = "done" => tagged = [i \in 1..Len(passages) |-> i])

(***************************************************************************)
(* Segmentation: scripts/chunk_passages.py.  A raw text is the sequence of *)
(* its paragraphs (the pieces between blank lines).  A paragraph may open  *)
(* with a structural marker ("=== BOOK 1 ===", "1. ", "Letter 1"); words   *)
(* is the number of words that follow the marker.  A piece of text is      *)
(* named by the paragraph it comes from, by whether the marker's own words *)
(* are part of it, and by its number of words.                             *)
(***************************************************************************)

\* The longest raw text, in paragraphs.
MaxTextParas == 3

\* The paragraphs a raw text is made of.
ParagraphSamples == <<
    [marker |-> "none", num |-> 0, words |-> 12],
    [marker |-> "none", num |-> 0, words |-> 35],
    [marker |-> "none", num |-> 0, words |-> 260],
    [marker |-> "book", num |-> 1, words |-> 35],
    [marker |-> "book", num |-> 2, words |-> 0],
    [marker |-> "chapter", num |-> 1, words |-> 35],
    [marker |-> "letter", num |-> 1, words |-> 12] >>

\* The words of a marker when it is read as plain text: "===", "BOOK", "1",
\* "==="; "1."; "Letter", "1".
MarkerWords(marker) ==
    CASE marker = "book" -> 4
      [] marker = "chapter" -> 1
      [] marker = "letter" -> 2
      [] OTHER -> 0

\* The works that are segmented: one per chunker, "on_anger" for
\* chunk_generic.
ChunkedWorks ==
    <<"meditations", "enchiridion", "discourses", "letters_to_lucilius",
      "on_anger">>

\* chunkers.get(work_id, chunk_generic)
ChunkerOf(work) ==
    CASE work = "meditations" -> "chunk_meditations"
      [] work = "enchiridion" -> "chunk_enchiridion"
      [] work = "discourses" -> "chunk_discourses"
      [] work = "letters_to_lucilius" -> "chunk_letters"
      [] OTHER -> "chunk_generic"

\* Whether the chunker's pattern matches the marker that opens paragraph i:
\* book_pattern, chapter_pattern (which needs a newline before the number,
\* so not at the start of the text) and letter_pattern.
Recognizes(chunker, text, i) ==
    CASE chunker \in {"chunk_meditations", "chunk_discourses"} ->
             text[i].marker = "book"
      [] chunker = "chunk_enchiridion" -> text[i].marker = "chapter" /\ i > 1
      [] chunker = "chunk_letters" -> text[i].marker = "letter"
      [] OTHER -> FALSE

\* Paragraph i as the chunker reads it: without the marker's words when the
\* marker is recognized and split off.
PieceOf(chunker, text, i) ==
    LET with_marker == text[i].marker # "none" /\ ~Recognizes(chunker, text, i)
    IN  [para |-> i,
         with_marker |-> with_marker,
         words |-> text[i].words
                   + (IF with_marker THEN MarkerWords(text[i].marker) ELSE 0)]

\* re.split(pattern, text): the text before the first marker (number 0
\* here), then for each marker its number and the text up to the next one.
SplitUnits(chunker, text) ==
    LET marks == {i \in 1..Len(text) : Recognizes(chunker, text, i)}
        Nth(k) == CHOOSE i \in marks :
                      Cardinality({j \in marks : j < i}) = k - 1
        EndOf(k) == IF k = Cardinality(marks) THEN Len(text)
                    ELSE Nth(k + 1) - 1
        first_end == IF marks = {} THEN Len(text) ELSE Nth(1) - 1
        Pieces(a, b) == [j \in 1..(b - a + 1) |->
                            PieceOf(chunker, text, a + j - 1)]
    IN  <<[num |-> 0, marked |-> FALSE, pieces |-> Pieces(1, first_end)]>>
        \o [k \in 1..Cardinality(marks) |->
               [num |-> text[Nth(k)].num, marked |-> TRUE,
                pieces |-> Pieces(Nth(k), EndOf(k))]]

\* The number of words of a sequence of pieces.
RECURSIVE WordCount(_)
WordCount(pieces) ==
    IF Len(pieces) = 0 THEN 0
    ELSE Head(pieces).words + WordCount(Tail(pieces))

\* "if not para: continue", "if not book_text.strip()"
NonEmptyPieces(pieces) ==
    LET HasWords(piece) == piece.words > 0
    IN  SelectSeq(pieces, HasWords)

\* chunk_by_paragraph(text, min_words, max_words) from paragraph i on, with
\* the running chunk cur of count words: the chunks yielded, each the
\* paragraphs joined by " ".
RECURSIVE ChunkFrom(_, _, _, _, _, _)
ChunkFrom(paras, i, cur, count, minw, maxw) ==
    IF i > Len(paras)
    THEN IF Len(cur) > 0 THEN <<[sep |-> " ", pieces |-> cur]>> ELSE <<>>
    ELSE LET para_words == paras[i].words
             flush == ExceedsMax(count, para_words, maxw) /\ Len(cur) > 0
             cur1 == IF flush THEN <<>> ELSE cur
             count1 == IF flush THEN 0 ELSE count
             cur2 == Append(cur1, paras[i])
             count2 == count1 + para_words
         IN  IF para_words = 0
             THEN ChunkFrom(paras, i + 1, cur, count, minw, maxw)
             ELSE (IF flush THEN <<[sep |-> " ", pieces |-> cur]>> ELSE <<>>)
                  \o (IF ReachedMin(count2, minw)
                      THEN <<[sep |-> " ", pieces |-> cur2]>>
                           \o ChunkFrom(paras, i + 1, <<>>, 0, minw, maxw)
                      ELSE ChunkFrom(paras, i + 1, cur2, count2, minw, maxw))

ChunkByParagraph(paras, minw, maxw) ==
    ChunkFrom(paras, 1, <<>>, 0, minw, maxw)

\* The defaults of chunk_by_paragraph.
DefaultMinWords == 30

DefaultMaxWords == 250

\* The arguments chunk_discourses passes.
DiscoursesMinWords == 50

DiscoursesMaxWords == 300

\* A metadata value that is None or missing.
NoNumber == -1

\* The concatenation of a sequence of sequences.
RECURSIVE Chain(_)
Chain(seqs) ==
    IF Len(seqs) = 0 THEN <<>> ELSE Head(seqs) \o Chain(Tail(seqs))

\* "for chunk_num, chunk in enumerate(chunk_by_paragraph(...), 1)" inside one
\* structural unit: the (chunk, metadata) pairs, the metadata holding the
\* unit's book or letter number.
UnitChunks(unit_chunks, book, letter) ==
    [k \in 1..Len(unit_chunks) |->
        [text |-> unit_chunks[k],
         meta |-> [book |-> book, chapter |-> NoNumber, letter |-> letter,
                   section |-> k]]]

\* chunk_meditations (minw, maxw the defaults) and chunk_discourses.
ChunkBooks(chunker, text, minw, maxw) ==
    LET units == SplitUnits(chunker, text)
    IN  Chain([u \in 1..Len(units) |->
            UnitChunks(ChunkByParagraph(units[u].pieces, minw, maxw),
                       IF units[u].num > 0 THEN units[u].num ELSE NoNumber,
                       NoNumber)])

\* chunk_letters
ChunkLetters(text) ==
    LET units == SplitUnits("chunk_letters", text)
    IN  Chain([u \in 1..Len(units) |->
            UnitChunks(ChunkByParagraph(units[u].pieces, DefaultMinWords,
                                        DefaultMaxWords),
                       NoNumber,
                       IF units[u].marked THEN units[u].num ELSE NoNumber)])

\* chunk_enchiridion: the text before the first chapter and each chapter's
\* text are yielded whole, stripped, as one chunk each; the paragraphs keep
\* the blank lines between them.
ChunkEnchiridion(text) ==
    LET units == SplitUnits("chunk_enchiridion", text)
        Whole(u) == [text |-> [sep |-> "\n\n",
                               pieces |-> NonEmptyPieces(units[u].pieces)],
                     meta |-> [book |-> NoNumber, chapter |-> units[u].num,
                               letter |-> NoNumber, section |-> NoNumber]]
    IN  Chain([u \in 1..Len(units) |->
            IF Len(NonEmptyPieces(units[u].pieces)) > 0
            THEN <<Whole(u)>> ELSE <<>>])

\* chunk_generic
ChunkGeneric(text) ==
    LET units == SplitUnits("chunk_generic", text)
        whole == ChunkByParagraph(units[1].pieces, DefaultMinWords,
                                  DefaultMaxWords)
    IN  [k \in 1..Len(whole) |->
            [text |-> whole[k],
             meta |-> [book |-> NoNumber, chapter |-> NoNumber,
                       letter |-> NoNumber, section |-> k]]]

\* chunker(text)
RunChunker(chunker, text) ==
    CASE chunker = "chunk_meditations" ->
             ChunkBooks(chunker, text, DefaultMinWords, DefaultMaxWords)
      [] chunker = "chunk_discourses" ->
             ChunkBooks(chunker, text, DiscoursesMinWords, DiscoursesMaxWords)
      [] chunker = "chunk_enchiridion" -> ChunkEnchiridion(text)
      [] chunker = "chunk_letters" -> ChunkLetters(text)
      [] OTHER -> ChunkGeneric(text)

\* clean_text(text): every run of whitespace, the blank lines between
\* paragraphs included, becomes one space.
CleanText(chunk) == [sep |-> " ", pieces |-> chunk.pieces]

\* The raw texts: at most MaxTextParas paragraphs.
RawTexts ==
    UNION {[1..n -> {ParagraphSamples[k] : k \in 1..Len(ParagraphSamples)}] :
               n \in 0..MaxTextParas}

(***************************************************************************)
(* process_work, generate_embeddings and export_for_supabase.              *)
(***************************************************************************)

\* CHUNK_CONFIG["min_words"]
ConfigMinWords == 30

\* The number of values the 12 hex digits kept of the md5 digest can take.
HashSpace == 16

\* The batch size of generate_embeddings.
EmbedBatchSize == 2

\* hashlib.md5(chunk_text.encode()).hexdigest()[:12]: a value determined by
\* the text, which two different texts may share.
RECURSIVE ContentHash(_)
ContentHash(pieces) ==
    IF Len(pieces) = 0 THEN 0
    ELSE (31 * ContentHash(Tail(pieces))
          + 7 * Head(pieces).para + Head(pieces).words
          + (IF Head(pieces).with_marker THEN 1 ELSE 0)) % HashSpace

\* An id that also depends on the run that creates it.
PassageIdPerRun(work, chunk_text) ==
    work \o "_" \o ToString((ContentHash(chunk_text.pieces) + w_run) % HashSpace)

\* f"{work_id.value}_{content_hash}"
PassageId(work, chunk_text) ==
    work \o "_" \o ToString(ContentHash(chunk_text.pieces))

\* "if word_count < CHUNK_CONFIG['min_words']: continue"
IsTooShort(word_count) == word_count < ConfigMinWords

\* The Passage process_work creates for a cleaned chunk.
WorkPassage(work, chunk_text, chunk_meta) ==
    [id |-> PassageId(work, chunk_text),
     work_id |-> work,
     book |-> chunk_meta.book,
     chapter |-> chunk_meta.chapter,
     letter |-> chunk_meta.letter,
     section |-> chunk_meta.section,
     text |-> chunk_text,
     word_count |-> WordCount(chunk_text.pieces),
     embedding |-> None]

\* An export filter that lets every passage through.
HasEmbeddingAlways(passage) == TRUE

\* "if p.embedding is None: continue", negated
HasEmbedding(passage) == passage.embedding # None

\* The row export_for_supabase writes for a passage (the tag and score
\* columns are left out).
ExportRow(passage) ==
    [id |-> passage.id,
     work_id |-> passage.work_id,
     book |-> passage.book,
     chapter |-> passage.chapter,
     letter |-> passage.letter,
     text |-> passage.text,
     embedding |-> passage.embedding]

InitWork ==
    /\ IdleQuote
    /\ IdleConc
    /\ IdleChunk
    /\ IdleMatch
    /\ IdleTag
    /\ work_id \in {ChunkedWorks[k] : k \in 1..Len(ChunkedWorks)}
    /\ raw_text \in RawTexts
    /\ w_run = 1
    /\ emitted = <<>>
    /\ chunk_idx = 0
    /\ work_passages = <<>>
    /\ first_ids = <<>>
    /\ embed_start = 0
    /\ export_rows = <<>>
    /\ w_pc = "chunk"

\* process_work, lines 263-281: the chunker is chosen and run on the text.
StartChunker ==
    /\ w_pc = "chunk"
    /\ emitted' = RunChunker(ChunkerOf(work_id), raw_text)
    /\ chunk_idx' = 0
    /\ work_passages' = <<>>
    /\ w_pc' = "build"
    /\ UNCHANGED <<work_id, raw_text, w_run, first_ids, embed_start,
                   export_rows>>
    /\ UNCHANGED <<quoteVars, chunkVars, matchVars, tagVars, concVars>>

\* process_work, lines 281-320: one turn of the loop over the chunks.
BuildPassage ==
    /\ w_pc = "build"
    /\ chunk_idx < Len(emitted)
    /\ LET chunk_text == CleanText(emitted[chunk_idx + 1].text)
           word_count == WordCount(chunk_text.pieces)
       IN  work_passages' =
               IF IsTooShort(word_count) THEN work_passages
               ELSE Append(work_passages,
                           WorkPassage(work_id, chunk_text,
                                       emitted[chunk_idx + 1].meta))
    /\ chunk_idx' = chunk_idx + 1
    /\ UNCHANGED <<work_id, raw_text, w_run, emitted, first_ids, embed_start,
                   export_rows, w_pc>>
    /\ UNCHANGED <<quoteVars, chunkVars, matchVars, tagVars, concVars>>

\* process_work has returned and is called again for the same work on the
\* same raw file.
Resegment ==
    /\ w_pc = "build"
    /\ chunk_idx = Len(emitted)
    /\ w_run = 1
    /\ first_ids' = [i \in 1..Len(work_passages) |-> work_passages[i].id]
    /\ w_run' = 2
    /\ w_pc' = "chunk"
    /\ UNCHANGED <<work_id, raw_text, emitted, chunk_idx, work_passages,
                   embed_start, export_rows>>
    /\ UNCHANGED <<quoteVars, chunkVars, matchVars, tagVars, concVars>>

\* process_work has returned; its passages go on to generate_embeddings.
ReturnPassages ==
    /\ w_pc = "build"
    /\ chunk_idx = Len(emitted)
    /\ embed_start' = 0
    /\ w_pc' = "embed"
    /\ UNCHANGED <<work_id, raw_text, w_run, emitted, chunk_idx,
                   work_passages, first_ids, export_rows>>
    /\ UNCHANGED <<quoteVars, chunkVars, matchVars, tagVars, concVars>>

\* generate_embeddings, lines 107-128: one batch.  The provider call
\* returns one embedding per text ("ok"), raises ("error": the batch keeps
\* embedding None), or returns one embedding too few ("short": zip stops
\* early).
EmbedBatch ==
    /\ w_pc = "embed"
    /\ embed_start < Len(work_passages)
    /\ \E outcome \in {"ok", "error", "short"} :
           LET batch_len == Min(EmbedBatchSize,
                                Len(work_passages) - embed_start)
               returned == CASE outcome = "ok" -> batch_len
                             [] outcome = "short" -> batch_len - 1
                             [] OTHER -> 0
           IN  work_passages' =
                   [i \in 1..Len(work_passages) |->
                       IF i > embed_start /\ i <= embed_start + returned
                       THEN [work_passages[i] EXCEPT !.embedding = "vector"]
                       ELSE work_passages[i]]
    /\ embed_start' = embed_start + EmbedBatchSize
    /\ UNCHANGED <<work_id, raw_text, w_run, emitted, chunk_idx, first_ids,
                   export_rows, w_pc>>
    /\ UNCHANGED <<quoteVars, chunkVars, matchVars, tagVars, concVars>>

\* export_for_supabase
Export ==
    /\ w_pc = "embed"
    /\ embed_start >= Len(work_passages)
    /\ export_rows' =
           LET kept == SelectSeq(work_passages, HasEmbedding)
           IN  [i \in 1..Len(kept) |-> ExportRow(kept[i])]
    /\ w_pc' = "done"
    /\ UNCHANGED <<work_id, raw_text, w_run, emitted, chunk_idx,
                   work_passages, first_ids, embed_start>>
    /\ UNCHANGED <<quoteVars, chunkVars, matchVars, tagVars, concVars>>

NextWork ==
    \/ StartChunker
    \/ BuildPassage
    \/ Resegment
    \/ ReturnPassages
    \/ EmbedBatch
    \/ Export

SpecWork == InitWork /\ [][NextWork]_vars

(***************************************************************************)
(* Claims about segmentation and export                                    *)
(***************************************************************************)

\* The cleaned chunk texts of a sequence of (chunk, metadata) pairs.
ChunkTexts(pairs) == [k \in 1..Len(pairs) |-> CleanText(pairs[k].text)]

\* The text holds no marker the work's chunker recognizes.
Unmarked ==
    \A i \in 1..Len(raw_text) : ~Recognizes(ChunkerOf(work_id), raw_text, i)

\* C11: on a text without a structural marker it recognizes, every
\* structured chunker (chunk_meditations, chunk_discourses,
\* chunk_enchiridion, chunk_letters) emits exactly the chunks chunk_generic
\* emits for the whole text.
C11_UnmarkedAsGeneric ==
    (w_pc \in {"build", "embed", "done"} /\ Unmarked)
        => ChunkTexts(emitted) = ChunkTexts(ChunkGeneric(raw_text))

\* The ids of the passages of the present run.
PassageIds == [i \in 1..Len(work_passages) |-> work_passages[i].id]

C13_ExportedAreEmbeddedAndLongEnough ==
    /\ \A i \in 1..Len(export_rows) :
           /\ export_rows[i].embedding # None
           /\ WordCount(export_rows[i].text.pieces) >= ConfigMinWords
    /\ \A i \in 1..Len(work_passages) :
           WordCount(work_passages[i].text.pieces) >= ConfigMinWords

C13_Witness ==
    /\ w_pc = "done"
    /\ Len(emitted) > Len(work_passages)
    /\ Len(work_passages) > Len(export_rows)
    /\ Len(export_rows) > 0

(***************************************************************************)
(* Further claims about match_philosopher                                  *)
(***************************************************************************)

\* C14: once match_philosopher has completed, no user_profiles record holds
\* an answer of the request.
C14_AnswersNotPersisted ==
    m_pc = "done" =>
        \A r \in user_profiles :
            \A i \in 1..Len(m_request.answers) :
                ~InSeq(m_request.answers[i], r.onboarding_answers)

\* C15: when the profile lookup or the text-generation provider fails, the
\* request goes on with the fallback string of the selected profile id as
\* its justification, and a response that is sent carries that string.
C15_FallbackOnProviderFailure ==
    (reason_outcome \in {"lookup_error", "provider_error"}) =>
        /\ match_reason = FallbackReason(best_id)
        /\ m_pc \in {"save", "done"}
        /\ m_outcome.status = 200
               => m_outcome.match_reason = FallbackReason(m_outcome.philosopher_id)

C15_Witness ==
    /\ reason_outcome = "provider_error"
    /\ m_pc = "done"
    /\ m_outcome.status = 200
    /\ m_outcome.philosopher_id = "musonius_rufus"
    /\ m_outcome.match_reason =
           "Based on your experiences and values, Musonius Rufus's teachings resonate with your journey."

(***************************************************************************)
(* calculate_match_score on the profiles and the answer of the scoring     *)
(* scenario.                                                               *)
(***************************************************************************)

\* The longest catalog and answer list of the scenario runs.
MaxScenarioLen == 2

ScenarioProfiles == <<
    [id |-> "cato", name |-> "Cato",
     unlock_criteria |-> [matching_criteria |-> <<"justice", "leadership">>]],
    [id |-> "seneca", name |-> "Seneca",
     unlock_criteria |-> [matching_criteria |-> <<"solitude", "writing">>]] >>

ScenarioPool == ScenarioProfiles \o ProfilePool

ScenarioAnswer == "I lead a team and value duty to others"

ScenarioAnswers ==
    [question_id : {"q1"},
     answer : {ScenarioAnswer, "Justice and leadership matter to me"}]

InitMatchScenario ==
    /\ IdleQuote
    /\ IdleConc
    /\ IdleChunk
    /\ IdleTag
    /\ IdleWork
    /\ \E n \in 0..MaxScenarioLen : \E a \in [1..n -> ScenarioAnswers] :
           m_request = [user_id |-> "u1", answers |-> a]
    /\ \E n \in 0..MaxScenarioLen : \E c \in [1..n -> 1..Len(ScenarioPool)] :
           /\ \A i, j \in 1..n :
                  i # j => ScenarioPool[c[i]].id # ScenarioPool[c[j]].id
           /\ catalog = [i \in 1..n |-> ScenarioPool[c[i]]]
    /\ scores = <<>>
    /\ best_id = None
    /\ match_reason = None
    /\ user_profiles = {}
    /\ m_outcome = NoMatchOutcome
    /\ reason_outcome = None
    /\ m_pc = "score"

SpecMatchScenario == InitMatchScenario /\ [][NextMatch]_vars

\* C16: for the single answer "I lead a team and value duty to others" the
\* profile with the criteria "justice" and "leadership" gets a strictly
\* higher score than the profile with the criteria "solitude" and "writing".
C16_LeadershipOutscoresSolitude ==
    (/\ m_pc # "score"
     /\ Len(m_request.answers) = 1
     /\ m_request.answers[1].answer = ScenarioAnswer
     /\ catalog = ScenarioProfiles)
        => /\ ScoreGE(scores[1].value.score, scores[2].value.score)
           /\ ~ScoreGE(scores[2].value.score, scores[1].value.score)

\***************************************************************************
\* Further claims about the rule-based tagger
\***************************************************************************

\* The passage of the scenario: "It is not things that disturb us, ...".
ScenarioText == TextSamples[1]

\* C17: the rule-based tagger gives the passage with the scenario text the
\* situation anxiety and the primary concept dichotomy_of_control.
C17_ScenarioTags ==
    strategy = "rules" =>
        \A j \in 1..Len(Output) :
            Output[j].text = ScenarioText =>
                /\ InSeq("anxiety", Output[j].tags.situations)
                /\ InSeq("dichotomy_of_control",
                         Output[j].tags.primary_concepts)

\***************************************************************************
\* Further claims about get_contextual_quote
\***************************************************************************

\* Two phrases joined by ", ", an empty phrase leaving no separator.
JoinNonEmpty(a, b) ==
    IF a = "" THEN b ELSE IF b = "" THEN a ELSE a \o ", " \o b

\* The activity phrase of a request.
ActivityPhrase(is_active) ==
    IF is_active THEN "during exercise or activity" ELSE ""

\* The request of the scenario: high stress, at night, not active, no query.
IsNightScenario(req) ==
    /\ req.stress_level = "high"
    /\ req.time_of_day = "night"
    /\ ~req.is_active
    /\ req.query = None

\* C18: a request with stress_level "high", time_of_day "night", is_active
\* false and no query builds the context text "very anxious and need calming
\* guidance, ending my day, preparing to rest"; whenever there is no query
\* the context text is the non-empty phrases for stress level, time of day
\* and (only if is_active) activity, in that order, joined by ", ".
C18_ContextFromHealth ==
    (q_pc # "BuildContext" /\ ~Truthy(q_request.query))
        => /\ context_text =
                JoinNonEmpty(JoinNonEmpty(StressPhrase(q_request.stress_level),
                                          TimePhrase(q_request.time_of_day)),
                             ActivityPhrase(q_request.is_active))
           /\ IsNightScenario(q_request)
                => context_text = "very anxious and need calming guidance, ending my day, preparing to rest"

C18_Witness ==
    /\ Ran("BuildContext")
    /\ IsNightScenario(q_request)
    /\ context_text = "very anxious and need calming guidance, ending my day, preparing to rest"

\* The stages of a request, in the order of the handler.
StageOrder ==
    <<"BuildContext", "Embed", "Search", "Filter", "SelectTop", "Respond">>

\* C19: the stages of a request run in the order BuildContext, Embed,
\* Search, Filter, SelectTop, Respond, each at most once; the search runs
\* only after the embedding call succeeded; when the embedding call fails
\* the request ends in failure, no search has run and the embedding call is
\* not made again.
C19_StagesInOrder ==
    /\ Len(q_trace) <= Len(StageOrder)
    /\ q_trace = SubSeq(StageOrder, 1, Len(q_trace))
    /\ (q_pc = "Search" \/ Ran("Search"))
            => q_outcome.detail # "Embedding error"
    /\ q_pc = "Search" => q_outcome = NoOutcome
    /\ q_outcome.detail = "Embedding error"
            => /\ q_pc = "Done"
               /\ q_outcome.status = 500
               /\ q_trace = <<"BuildContext", "Embed">>
    /\ q_pc = "Done" /\ q_trace = <<"BuildContext", "Embed">>
            => q_outcome = HttpError(500, "Embedding error")

C19_Witness ==
    /\ q_pc = "Done"
    /\ q_trace = StageOrder
    /\ q_outcome.status = 200

\***************************************************************************
\* Further claims about the external tagging loop
\***************************************************************************

\* The batch of passage i: passages[b * batch_size : (b + 1) * batch_size]
\* is batch b.
BatchOf(i) == (i - 1) \div BatchSize

\* Entry ev is in the history before position b.
Before(ev, b) == \E a \in 1..(b - 1) : t_log[a] = ev

\* C20: in the external tagging loop the batches run strictly one after
\* another: when a provider request for a passage of a batch is issued,
\* every tag_passage call of every earlier batch has returned, its tags have
\* been applied and the delay after that batch has elapsed, and nothing of
\* an earlier batch happens afterwards.
C20_BatchesSequential ==
    \A b \in 1..Len(t_log) :
        t_log[b].e = "request" =>
            /\ \A i \in 1..Len(passages) :
                   BatchOf(i) < BatchOf(t_log[b].i) =>
                       /\ Before(Event("return", i), b)
                       /\ Before(Event("apply", i), b)
                       /\ Before(Event("delay", BatchOf(i) * BatchSize + 1), b)
            /\ \A a \in b..Len(t_log) :
                   BatchOf(t_log[a].i) >= BatchOf(t_log[b].i)

\* A request of the second batch is issued after the calls of the first
\* batch returned in the opposite order of their requests.
C20_Witness ==
    \E b \in 1..Len(t_log), r1, r2 \in 1..Len(t_log) :
        /\ t_log[b].e = "request"
        /\ BatchOf(t_log[b].i) = 1
        /\ t_log[r1] = Event("return", 2)
        /\ t_log[r2] = Event("return", 1)
        /\ r1 < r2
        /\ Before(Event("request", 1), r1)
        /\ Before(Event("request", 2), r1)

(***************************************************************************)
(* Re-tagging: a tagging run whose input passages were tagged before (the  *)
(* --input file of a tagger is the --output file of an earlier run).       *)
(***************************************************************************)

\* Passage i with the given text as the earlier, rule-based run left it.
PreviouslyTagged(i, text) == RuleTagPassage(NewPassage(i, text))

InitRetag ==
    /\ IdleQuote
    /\ IdleConc
    /\ IdleChunk
    /\ IdleMatch
    /\ IdleWork
    /\ strategy \in Strategies
    /\ \E n \in 0..MaxPassages : \E offset \in 0..(Len(TextSamples) - 1) :
           passages = [i \in 1..n |->
               PreviouslyTagged(i, TextSamples[((i - 1 + offset)
                                                   % Len(TextSamples)) + 1])]
    /\ tagged = <<>>
    /\ batch_start = 0
    /\ results = <<>>
    /\ t_pc = "loop"
    /\ t_log = <<>>
    /\ t_answers = [i \in 1..Len(passages) |-> Pending]

SpecRetag == InitRetag /\ [][NextTag]_vars

\* The fields a tagging replaces.
TaggedFields == {"tags", "health_context", "journey_context", "metadata"}

\* C21: re-tagging replaces tags, health_context, journey_context and
\* metadata together or not at all: a passage whose tagging has not been
\* completed (not started yet, or ended by an exception partway) holds all
\* four fields of the previous tagging.
C21_RetagAllOrNothing ==
    \A i \in 1..Len(passages) :
        ~InSeq(i, tagged) =>
            LET before == PreviouslyTagged(i, passages[i].text)
            IN  [f \in TaggedFields |-> passages[i][f]]
                    = [f \in TaggedFields |-> before[f]]

\***************************************************************************
\* Further claims about calculate_match_score
\***************************************************************************

\* The answers in the order given by the permutation pi of their positions.
Permuted(answers, pi) == [i \in 1..Len(answers) |-> answers[pi[i]]]

\* C22: the order of the onboarding answers is irrelevant to scoring: for
\* every profile and every list of answers, also one in which two answers
\* carry the same question_id, calculate_match_score returns the same score
\* for every permutation of the list.
C22_AnswerOrderIrrelevant ==
    m_pc # "score" =>
        \A k \in 1..Len(catalog) :
            \A pi \in Permutations(1..Len(m_request.answers)) :
                CalculateMatchScore(catalog[k],
                                    Permuted(m_request.answers, pi))
                    = CalculateMatchScore(catalog[k], m_request.answers)

\***************************************************************************
\* Further claims about map_to_health_context
\***************************************************************************

\* The tags carry no time-of-day signal.
NoTimeSignal(tags) ==
    /\ ~InSeq("morning_reflection", tags.practices)
    /\ ~InSeq("evening_review", tags.practices)
    /\ ~InSeq("memento_mori", tags.primary_concepts)
    /\ ~InSeq("premeditatio_malorum", tags.primary_concepts)
    /\ ~InSeq("present_moment", tags.primary_concepts)

\* C23: when the tags of a passage tagged by the rule-based tagger carry no
\* time-of-day signal, its times_of_day are all four times of day: morning,
\* midday, evening and night.
C23_NoSignalAllTimes ==
    strategy = "rules" =>
        \A j \in 1..Len(Output) :
            (~IsBoilerplateForRules(Output[j].text)
             /\ NoTimeSignal(Output[j].tags))
                => {Output[j].health_context.times_of_day[k] :
                       k \in 1..Len(Output[j].health_context.times_of_day)}
                   = {"morning", "midday", "evening", "night"}

\***************************************************************************
\* Further claims about the stages of get_contextual_quote
\***************************************************************************

\* Every row of the list is of the philosopher with the raw identifier id.
AllFrom(rows, id) == \A i \in 1..Len(rows) : rows[i].philosopher_id = id

\* C24: when a request specifies a philosopher id, the candidates that
\* survive the philosopher stage are exactly the rows of the search result
\* whose raw philosopher_id equals it, so every row kept afterwards and the
\* passage returned are from that philosopher, also when the stress-level
\* stage falls back to its pre-filter set.
C24_OnlyRequestedPhilosopher ==
    (Truthy(q_request.philosopher_id) /\ Ran("Filter"))
        => /\ AllFrom(pre_stress, q_request.philosopher_id)
           /\ \A i \in 1..Len(result_data) :
                  result_data[i].philosopher_id = q_request.philosopher_id
                      => \E k \in 1..Len(pre_stress) :
                             pre_stress[k] = result_data[i]
           /\ AllFrom(matches, q_request.philosopher_id)
           /\ AllFrom(selection, q_request.philosopher_id)
           /\ q_outcome.status = 200
                  => \E k \in 1..Len(result_data) :
                         /\ result_data[k].id = q_outcome.body.id
                         /\ result_data[k].philosopher_id
                                = q_request.philosopher_id

C24_Witness ==
    /\ Truthy(q_request.philosopher_id)
    /\ Ran("Filter")
    /\ q_outcome.status = 200
    /\ Len(stress_filtered) = 0
    /\ Len(pre_stress) > 1
    /\ result_data[1].philosopher_id # q_request.philosopher_id

(***************************************************************************)
(* The taxonomy: scripts/models.py, lines 239-303.                         *)
(***************************************************************************)

PRIMARY_CONCEPTS ==
    {"dichotomy_of_control", "inner_citadel", "premeditatio_malorum",
     "memento_mori", "amor_fati", "prosoche", "view_from_above",
     "living_according_to_nature", "preferred_indifferents",
     "cosmopolitanism", "impermanence", "present_moment"}

VIRTUES == {"wisdom", "courage", "justice", "temperance"}

PRACTICES ==
    {"negative_visualization", "morning_reflection", "evening_review",
     "journaling", "self_examination", "voluntary_discomfort"}

SITUATIONS ==
    {"difficult_people", "anger_management", "anxiety", "grief", "failure",
     "success", "leadership", "relationships", "health_challenges",
     "career_transition", "time_management", "finding_purpose",
     "ethical_dilemma", "feeling_trapped", "overwhelm"}

EMOTIONS ==
    {"anger", "fear", "anxiety", "grief", "joy", "frustration", "envy",
     "regret", "hope", "peace"}

\* Every value of the list is in the set.
AllIn(l, S) == \A i \in 1..Len(l) : l[i] \in S

\* The five categories of a PassageTags hold taxonomy values only.
InTaxonomy(tags) ==
    /\ AllIn(tags.primary_concepts, PRIMARY_CONCEPTS)
    /\ AllIn(tags.virtues, VIRTUES)
    /\ AllIn(tags.practices, PRACTICES)
    /\ AllIn(tags.situations, SITUATIONS)
    /\ AllIn(tags.emotions, EMOTIONS)

\* C25: every value stored in a tag category of a tagged passage belongs to
\* the taxonomy of that category, for the rule-based tagger and for the
\* external taggers whatever the provider returned.
C25_TagsInTaxonomy ==
    \A j \in 1..Len(Output) : InTaxonomy(Output[j].tags)

\***************************************************************************
\* Further claims about the structure-aware chunkers
\***************************************************************************

\* The structure-aware chunkers: book-delimited, chapter-numbered and
\* letter-numbered.
StructuredChunkers ==
    {"chunk_meditations", "chunk_discourses", "chunk_enchiridion",
     "chunk_letters"}

\* The paragraph whose marker most recently precedes paragraph para, for the
\* chunker that recognizes it; 0 before the first marker.
UnitOf(chunker, text, para) ==
    LET marks == {i \in 1..para : Recognizes(chunker, text, i)}
    IN  IF marks = {} THEN 0
        ELSE CHOOSE m \in marks : \A i \in marks : i <= m

\* The pieces of the structural unit that holds paragraph para.
UnitPieces(chunker, text, para) ==
    LET units == SplitUnits(chunker, text)
        k == CHOOSE u \in 1..Len(units) :
                 \E i \in 1..Len(units[u].pieces) :
                     units[u].pieces[i].para = para
    IN  units[k].pieces

\* The arguments the chunker passes to chunk_by_paragraph.
MergeArgs(chunker) ==
    IF chunker = "chunk_discourses"
    THEN [minw |-> DiscoursesMinWords, maxw |-> DiscoursesMaxWords]
    ELSE [minw |-> DefaultMinWords, maxw |-> DefaultMaxWords]

\* The unit number a chunk's metadata carries.
UnitNumber(chunker, meta) ==
    CASE chunker = "chunk_enchiridion" -> meta.chapter
      [] chunker = "chunk_letters" -> meta.letter
      [] OTHER -> meta.book

\* C26: every chunk a structure-aware chunker emits holds text of one
\* structural unit only, is a chunk the paragraph-merge strategy emits for
\* that unit's text, carries the number of the unit whose marker most
\* recently precedes it and a section ordinal that is 1 for the first chunk
\* of the unit and one more for each further chunk of it.
C26_ChunksWithinUnits ==
    (w_pc \in {"build", "embed", "done"}
     /\ ChunkerOf(work_id) \in StructuredChunkers)
        => LET chunker == ChunkerOf(work_id)
               Unit(j) == UnitOf(chunker, raw_text,
                                 emitted[j].text.pieces[1].para)
           IN  \A j \in 1..Len(emitted) :
                   LET c == emitted[j]
                       merged == ChunkByParagraph(
                                     UnitPieces(chunker, raw_text,
                                                c.text.pieces[1].para),
                                     MergeArgs(chunker).minw,
                                     MergeArgs(chunker).maxw)
                   IN  /\ \A k \in 1..Len(c.text.pieces) :
                              UnitOf(chunker, raw_text, c.text.pieces[k].para)
                                  = Unit(j)
                       /\ \E k \in 1..Len(merged) :
                              CleanText(merged[k]) = CleanText(c.text)
                       /\ Unit(j) > 0 =>
                              UnitNumber(chunker, c.meta)
                                  = raw_text[Unit(j)].num
                       /\ c.meta.section
                              = 1 + Cardinality({i \in 1..(j - 1) :
                                                    Unit(i) = Unit(j)})

(***************************************************************************)
(* Several POST /quote requests in flight at once.  The handler keeps its  *)
(* state in local variables, one frame per request; supabase and           *)
(* openai_client are assigned at startup only.  The index is not written.  *)
(***************************************************************************)

\* The number of requests in flight.
MaxConcurrent == 2

Requests == 1..MaxConcurrent

\* The requests sent concurrently.
RequestSamples ==
    {[stress_level |-> "high", time_of_day |-> "night", is_active |-> FALSE,
      philosopher_id |-> None, query |-> None],
     [stress_level |-> "low", time_of_day |-> "morning", is_active |-> TRUE,
      philosopher_id |-> "seneca", query |-> None],
     [stress_level |-> "normal", time_of_day |-> "night", is_active |-> FALSE,
      philosopher_id |-> "epictetus", query |-> "how to face fear"],
     [stress_level |-> "panic", time_of_day |-> "dusk", is_active |-> FALSE,
      philosopher_id |-> None, query |-> None]}

\* The contents the index can have.
IndexSamples == {1..PoolSize, {i \in 1..PoolSize : i % 2 = 1}, {}}

\* match_passages for the embedding of a context string: which stored
\* passages are returned, and in which order those of equal similarity come,
\* is a function of the index and of the string.
SearchResult(index, ctx) ==
    MatchPassages({i \in index : (i + Len(ctx)) % 3 # 0}, Len(ctx) % 2 = 0)

\* All requests keeping their locals in one module-level frame.
SharedFrame(i) == 1

\* The frame that holds the local variables of request i.
Frame(i) == i

\* How the provider calls of a request ended, and whether another request
\* was between its first and last stage while this one ran a stage.
NoCalls == [embed |-> TRUE, search |-> TRUE, overlap |-> FALSE]

Overlapping(i) ==
    \E j \in Requests \ {i} : rq_pc[j] \notin {"BuildContext", "Done"}

InitConcurrent ==
    /\ IdleQuote
    /\ IdleChunk
    /\ IdleMatch
    /\ IdleTag
    /\ IdleWork
    /\ rq_index \in IndexSamples
    /\ rq_request \in [Requests -> RequestSamples]
    /\ rq_pc = [i \in Requests |-> "BuildContext"]
    /\ rq_context = [i \in Requests |-> ""]
    /\ rq_rows = [i \in Requests |-> <<>>]
    /\ rq_ext = [i \in Requests |-> NoCalls]
    /\ rq_outcome = [i \in Requests |-> NoOutcome]

\* Lines 137-163 for request i.
ConcBuildContext(i) ==
    /\ rq_pc[i] = "BuildContext"
    /\ rq_context' = [rq_context EXCEPT ![Frame(i)] = ContextText(rq_request[i])]
    /\ rq_pc' = [rq_pc EXCEPT ![i] = "Embed"]
    /\ rq_ext' = [rq_ext EXCEPT ![i].overlap = @ \/ Overlapping(i)]
    /\ UNCHANGED <<rq_index, rq_request, rq_rows, rq_outcome>>
    /\ UNCHANGED <<quoteVars, chunkVars, matchVars, tagVars, workVars>>

\* Lines 165-173 for request i.
ConcEmbed(i) ==
    /\ rq_pc[i] = "Embed"
    /\ \E ok \in BOOLEAN :
        /\ rq_pc' = [rq_pc EXCEPT ![i] = AfterEmbed(ok)]
        /\ rq_ext' = [rq_ext EXCEPT ![i].embed = ok,
                                    ![i].overlap = @ \/ Overlapping(i)]
        /\ rq_outcome' = IF ok THEN rq_outcome
                         ELSE [rq_outcome EXCEPT
                                  ![i] = HttpError(500, "Embedding error")]
    /\ UNCHANGED <<rq_index, rq_request, rq_context, rq_rows>>
    /\ UNCHANGED <<quoteVars, chunkVars, matchVars, tagVars, workVars>>

\* Lines 176-184 for request i.
ConcSearch(i) ==
    /\ rq_pc[i] = "Search"
    /\ \E ok \in BOOLEAN :
        /\ rq_ext' = [rq_ext EXCEPT ![i].search = ok,
                                    ![i].overlap = @ \/ Overlapping(i)]
        /\ IF ok
           THEN /\ rq_rows' = [rq_rows EXCEPT ![Frame(i)] =
                                  SearchResult(rq_index, rq_context[Frame(i)])]
                /\ rq_pc' = [rq_pc EXCEPT ![i] = "Filter"]
                /\ UNCHANGED rq_outcome
           ELSE /\ rq_outcome' = [rq_outcome EXCEPT
                                     ![i] = HttpError(500, "Search error")]
                /\ rq_pc' = [rq_pc EXCEPT ![i] = "Done"]
                /\ UNCHANGED rq_rows
    /\ UNCHANGED <<rq_index, rq_request, rq_context>>
    /\ UNCHANGED <<quoteVars, chunkVars, matchVars, tagVars, workVars>>

\* What lines 186-219 make of the rows of a search.
RespondTo(req, rows) ==
    LET afterPhil == PhilosopherStage(req, rows)
        filtered == IF Len(afterPhil) > 0
                    THEN StressFiltered(req, afterPhil)
                    ELSE <<>>
    IN  SearchTryBlock(SelectTop(StressStage(afterPhil, filtered)))

\* Lines 186-219 for request i.
ConcRespond(i) ==
    /\ rq_pc[i] = "Filter"
    /\ rq_outcome' = [rq_outcome EXCEPT
                         ![i] = RespondTo(rq_request[i], rq_rows[Frame(i)])]
    /\ rq_pc' = [rq_pc EXCEPT ![i] = "Done"]
    /\ rq_ext' = [rq_ext EXCEPT ![i].overlap = @ \/ Overlapping(i)]
    /\ UNCHANGED <<rq_index, rq_request, rq_context, rq_rows>>
    /\ UNCHANGED <<quoteVars, chunkVars, matchVars, tagVars, workVars>>

NextConcurrent ==
    \E i \in Requests :
        \/ ConcBuildContext(i)
        \/ ConcEmbed(i)
        \/ ConcSearch(i)
        \/ ConcRespond(i)

SpecConcurrent == InitConcurrent /\ [][NextConcurrent]_vars

\* The response of a request that runs alone against the index, its
\* provider calls ending as given.
Alone(req, index, ext) ==
    IF ~ext.embed THEN HttpError(500, "Embedding error")
    ELSE IF ~ext.search THEN HttpError(500, "Search error")
    ELSE RespondTo(req, SearchResult(index, ContextText(req)))

\* C27: under every interleaving of several retrieval requests against an
\* unchanged index, each request ends with the response it gets when it runs
\* alone, and till then works on its own context text and its own rows.
C27_RequestsIndependent ==
    \A i \in Requests :
        /\ rq_pc[i] \in {"Embed", "Search", "Filter"}
               => rq_context[Frame(i)] = ContextText(rq_request[i])
        /\ rq_pc[i] = "Filter"
               => rq_rows[Frame(i)]
                      = SearchResult(rq_index, ContextText(rq_request[i]))
        /\ rq_pc[i] = "Done"
               => rq_outcome[i] = Alone(rq_request[i], rq_index, rq_ext[i])

C27_Witness ==
    /\ \A i \in Requests : rq_pc[i] = "Done" /\ rq_outcome[i].status = 200
    /\ rq_ext[1].overlap
    /\ rq_ext[2].overlap
    /\ rq_outcome[1].body.id # rq_outcome[2].body.id
    /\ rq_context[1] # rq_context[2]

\***************************************************************************
\* Further claims about chunk_by_paragraph
\***************************************************************************

\* The chunks that hold a word of paragraph p.
ChunksHolding(p) == {i \in 1..Len(chunks) : p \in ParagraphsOf(chunks[i])}

\* C28: chunk_by_paragraph neither loses, duplicates nor reorders text: the
\* chunks emitted so far followed by the running chunk are the words of the
\* paragraphs read so far, in their order, and when the function is done
\* every non-empty paragraph is in exactly one chunk, whole.
C28_TextPreserved ==
    /\ c_pc = "loop" =>
           Chain(chunks) \o Chain(current_chunk)
               = Chain(SubSeq(paragraphs, 1, para_idx))
    /\ c_pc = "done" =>
           /\ Chain(chunks) = Chain(paragraphs)
           /\ \A p \in 1..Len(paragraphs) :
                  Len(paragraphs[p]) > 0
                      => /\ Cardinality(ChunksHolding(p)) = 1
                         /\ \A i \in ChunksHolding(p) :
                                \E a \in 1..Len(chunks[i]) :
                                    SubSeq(chunks[i], a,
                                           a + Len(paragraphs[p]) - 1)
                                        = paragraphs[p]

C28_Witness ==
    /\ c_pc = "done"
    /\ Len(paragraphs) = 3
    /\ Len(chunks) = 2
    /\ Cardinality(ParagraphsOf(chunks[1])) = 2
    /\ Len(chunks[2]) > max_words

\***************************************************************************
\* Further claims about the stress-level stage
\***************************************************************************

\* Every row of the list has tags that hold taxonomy values only.
TaxonomyOnly(rows) == \A i \in 1..Len(rows) : InTaxonomy(rows[i].tags)

\* The strings of str(tags) that hold letters: the five keys and the values
\* of the taxonomy.
TaxonomyWords ==
    {"primary_concepts", "virtues", "practices", "situations", "emotions"}
        \cup PRIMARY_CONCEPTS \cup VIRTUES \cup PRACTICES \cup SITUATIONS
        \cup EMOTIONS

====
